---- MODULE Spec2Model ----
(***************************************************************************)
(* The GameCube controller adapter driver of Dolphin                       *)
(* (Source/Core/InputCommon/GCAdapter.cpp), native-USB (libusb) variant,   *)
(* as a state machine of its threads:                                      *)
(*   host  - the thread that calls Init and Shutdown                       *)
(*   cpu   - the thread that calls Input, Output, ResetRumble,             *)
(*           ResetDeviceType once per emulated frame                       *)
(*   scan  - ScanThreadFunc (s_adapter_detect_thread)                      *)
(*   read  - Read (s_adapter_input_thread)                                 *)
(*   write - Write (s_adapter_output_thread)                               *)
(*   hp    - the transport's event thread, which runs HotplugCallback      *)
(* A step is at most one access to a variable that another thread may      *)
(* touch without a common lock, together with the thread's local work.     *)
(***************************************************************************)
EXTENDS Integers, Sequences, FiniteSets, TLC

(* ------------------------------ bounds --------------------------------- *)
\* how many times the adapter is plugged in (each plug is a new device object)
MaxPlugs == 1
\* how many API calls the host thread makes in the lifecycle scenario
MaxHostCalls == 2
\* how many rumble API calls the cpu thread makes in the lifecycle scenario
MaxCpuCalls == 1
\* how many reports the adapter delivers in the lifecycle scenario
LifeReads == 0
\* how many reports the adapter delivers in the polling scenario
MaxReads == 1
\* how many polling API calls the cpu thread makes in the polling scenario
MaxInputCalls == 2
\* how many API calls the host thread makes in the polling scenario
InputHostCalls == 1
\* how many Output calls the cpu thread makes in the rumble scenario
MaxOutputCalls == 2
\* how many API calls the host thread makes in the initialisation scenario
MaxInitCalls == 2
\* how far the emulated clock runs
MaxTicks == 2
\* how many polling API calls the cpu thread makes in the decoding scenario
MaxDecodeCalls == 2

(* ------------------------- program constants --------------------------- *)
NO_ADAPTER_DETECTED == 0
ADAPTER_DETECTED == 1
ControllerType_None == 0
ControllerType_Wired == 1
ControllerType_Wireless == 2
MAX_SI_CHANNELS == 4
CONTROLER_INPUT_PAYLOAD_EXPECTED_SIZE == 37
CONTROLER_OUTPUT_INIT_PAYLOAD_SIZE == 1
CONTROLER_OUTPUT_RUMBLE_PAYLOAD_SIZE == 5
INIT_OPCODE == 19
RUMBLE_OPCODE == 17
LIBUSB_DT_HID == 33
GC_VENDOR == 1406
GC_PRODUCT == 823
LIBUSB_ERROR_IO == -1
LIBUSB_ERROR_ACCESS == -3
LIBUSB_ERROR_NOT_FOUND == -5
LIBUSB_ERROR_BUSY == -6
LIBUSB_ERROR_NOT_SUPPORTED == -12
\* one emulated second, in ticks of the model's clock
TicksPerSecond == 2
\* the length of a short (malformed) transfer
ShortLen == 10

Chans == 0 .. (MAX_SI_CHANNELS - 1)
Threads == {"host", "cpu", "scan", "read", "write", "hp"}
\* the threads that may run Reset in this variant
Resetters == {"host", "hp"}
\* the ports the cpu thread polls: a wired pad, a wireless pad, an empty port
\* (port 3 is empty like port 2)
PolledChans == {0, 1, 2}

VARIABLES
  \* --- the driver's file-scope state
  s_status,                         \* std::atomic<int>
  s_handle,                         \* 0 = nullptr, g > 0 = handle on device object g
  s_controller_type,                \* [Chans -> 0 .. 15]
  s_controller_rumble,              \* [Chans -> byte]
  s_controller_payload,             \* 37 bytes
  s_controller_payload_swap,        \* 37 bytes
  s_controller_payload_size,
  s_adapter_thread_running,         \* Common::Flag
  s_rumble_data_available,          \* Common::Event
  s_init_mutex,                     \* owner of the lifecycle lock, "" = free
  s_adapter_detect_thread_running,  \* Common::Flag
  s_hotplug_event,                  \* Common::Event
  s_libusb_hotplug_enabled,
  s_libusb_context,                 \* [id, valid], id = 0: null
  s_endpoint_in,
  s_endpoint_out,
  s_last_init,
  s_config_callback_id,             \* TRUE = subscribed
  s_config_si_device_type,          \* [Chans -> BOOLEAN]: port uses the adapter
  s_config_rumble_enabled,          \* [Chans -> BOOLEAN]
  \* --- threads
  thr,                              \* std::thread objects: "none" | "live" | "exited"
  pc,                               \* [Threads -> position]
  loc,                              \* [Threads -> record of locals]
  \* --- the environment
  bus,                              \* device object of the attached adapter, 0 = none
  plugs_left,                       \* times the adapter will still be plugged in
  hp_registered,                    \* context id the hotplug callback is registered on
  hp_queue,                         \* hotplug notifications not yet delivered
  core_running,                     \* Core::GetState() is neither Uninitialized nor Starting
  ticks,                            \* CoreTiming::GetTicks()
  config_store,                     \* the configuration store: [use, rumble, callbacks]
  \* --- history
  read_log,                         \* what each transfer that delivered data left
  out_log,                          \* payloads written to the open device's out endpoint
  open_handles,                     \* handles opened and not closed
  claimed,                          \* the open handle's interface is claimed
  notified,                         \* s_status at the last s_detect_callback()
  redundant_cb,                     \* s_detect_callback() ran with s_status unchanged
  calls,                            \* the Input calls that have returned, in order
  since,                            \* port state was reset since a call began
  reads_left,                       \* fresh reports the adapter will still deliver
  cpu_left,                         \* API calls the cpu thread will still make
  host_left,                        \* API calls the host thread will still make
  terminated,                       \* std::terminate was reached
  outs,                             \* the Output calls that have returned, in order
  \* --- the statics of the managed-runtime (Android) variant
  android

vars == <<s_status, s_handle, s_controller_type, s_controller_rumble,
          s_controller_payload, s_controller_payload_swap, s_controller_payload_size,
          s_adapter_thread_running, s_rumble_data_available, s_init_mutex,
          s_adapter_detect_thread_running, s_hotplug_event, s_libusb_hotplug_enabled,
          s_libusb_context, s_endpoint_in, s_endpoint_out, s_last_init,
          s_config_callback_id, s_config_si_device_type, s_config_rumble_enabled,
          thr, pc, loc, bus, plugs_left, hp_registered, hp_queue, core_running, ticks,
          config_store, reads_left, read_log, out_log, open_handles, claimed,
          notified,
          redundant_cb, calls, since, cpu_left, host_left, terminated, outs,
          android>>

\* groups used in UNCHANGED
vNotify == <<notified, redundant_cb>>
vHandle == <<s_handle, open_handles, claimed, s_endpoint_in, s_endpoint_out>>
vPorts == <<s_controller_type, s_controller_rumble>>
vBuf == <<s_controller_payload, s_controller_payload_swap,
          s_controller_payload_size>>
vIO == <<s_adapter_thread_running, s_rumble_data_available>>
vScan == <<s_adapter_detect_thread_running, s_hotplug_event, s_libusb_hotplug_enabled>>
vCtx == <<s_libusb_context, hp_registered>>
vCfg == <<s_last_init, s_config_callback_id, s_config_si_device_type,
          s_config_rumble_enabled>>
vEnv == <<bus, plugs_left, core_running, ticks, config_store>>
vHist == <<reads_left, read_log, out_log, calls, since, outs>>
vCount == <<cpu_left, host_left>>

(* ------------------------------ helpers -------------------------------- *)
Zeros(n) == [i \in 1 .. n |-> 0]
Bit(b, i) == (b \div (2 ^ i)) % 2 = 1

\* s_detect_callback(), run while s_status is (or becomes) v
DetectCallback(v) ==
  /\ notified' = v
  /\ redundant_cb' = (redundant_cb \/ notified = v)

Goto(t, p) == pc' = [pc EXCEPT ![t] = p]

\* the payload the adapter sends as its k-th report: header, then for each port
\* a status byte (type in the high nibble), two button bytes and six analog bytes.
\* Port 0 holds a wired pad, port 1 a wireless one, ports 2 and 3 are empty.
DevicePayload(k) ==
  [i \in 1 .. CONTROLER_INPUT_PAYLOAD_EXPECTED_SIZE |->
     IF i = 1 THEN LIBUSB_DT_HID
     ELSE LET c == (i - 2) \div 9
              o == (i - 2) % 9
          IN CASE o = 0 -> (IF c = 0 THEN 16 ELSE IF c = 1 THEN 32 ELSE 0)
               [] o = 1 -> (IF c = 0 THEN k ELSE 0)
               [] o = 2 -> 0
               [] OTHER -> (IF c < 2 THEN 128 ELSE 0)]

NoPad == [button |-> {}, stickX |-> 0, stickY |-> 0, substickX |-> 0,
          substickY |-> 0, triggerLeft |-> 0, triggerRight |-> 0]

(* the adapter as a libusb_device, and another device that is always attached *)
AdapterDevice(g) == [vid |-> GC_VENDOR, pid |-> GC_PRODUCT, obj |-> g]
OtherDevice == [vid |-> GC_VENDOR, pid |-> 774, obj |-> 0]

UseAdapter == \E c \in Chans : s_config_si_device_type[c]

DeviceConnected(chan) == s_controller_type[chan] # ControllerType_None

\* the open handle still reaches a device
HandleAlive == s_handle # 0 /\ s_handle = bus

\* the locals of the scan thread outside Setup: Setup's prev_status and the
\* devices still to visit, CheckDeviceAccess's ret and whether its
\* status_guard is armed
ScanLocals == [prev_status |-> 0, devs |-> <<>>, ret |-> 0, status_guard |-> FALSE]

\* the locals of the threads that call Reset, outside a call
HostLocals == [skipped |-> FALSE, open |-> FALSE]
HotplugLocals == [event |-> "none", dev |-> 0, skipped |-> FALSE, open |-> FALSE]

\* a port's tracked type was cleared: by Setup, Reset or ResetDeviceType
Disturb == since' = [since EXCEPT !.cur = TRUE]

\* the record of an Input call that returns pad p
Returned(chan, valid, copy, was, p) ==
  [chan |-> chan, valid |-> valid, copy |-> copy, was |-> was, pad |-> p]

\* the locals of the cpu thread's calls, outside a call
CpuLocals == [chan |-> 0, copy |-> <<>>, size |-> 0, type |-> 0, was |-> 0,
              get_origin |-> FALSE]

\* the record of an Output call: its arguments, what it found (the port is
\* configured for rumble on the adapter, a session is open and detected, the
\* command is the byte already stored for the port), how many payloads the
\* session had written, and whether it stored the command
Called(chan, rumble_command, staged) ==
  [chan |-> chan, cmd |-> rumble_command,
   configured |-> (UseAdapter /\ s_config_rumble_enabled[chan]),
   open |-> (s_handle # 0 /\ s_status = ADAPTER_DETECTED),
   same |-> rumble_command = s_controller_rumble[chan],
   sent |-> Len(out_log),
   staged |-> staged]

\* lines 79-80 and 114-129: the statics of the Android variant, and the Java
\* class's controller_payload array (line 190)
AndroidStatics ==
  [s_detected |-> FALSE, s_fd |-> 0,
   s_read_adapter_thread_running |-> FALSE,
   s_write_adapter_thread_running |-> FALSE,
   s_write_happened |-> FALSE,
   s_controller_write_payload |-> Zeros(CONTROLER_OUTPUT_RUMBLE_PAYLOAD_SIZE),
   s_controller_write_payload_size |-> 0,
   controller_payload |-> Zeros(CONTROLER_INPUT_PAYLOAD_EXPECTED_SIZE)]

\* the configuration the scenarios start with: port 0 uses the adapter and has
\* rumble enabled
PortZeroConfig == [use |-> [c \in Chans |-> c = 0], rumble |-> [c \in Chans |-> c = 0]]

(* --------------------------- initial state ------------------------------ *)
\* the state after static initialisation, with the budgets of a scenario, the
\* configurations the store may hold and the states the core may be in
InitFrom(reads, cpu, host, plugs, cfgs, cores) ==
  /\ s_status = NO_ADAPTER_DETECTED
  /\ s_handle = 0
  /\ s_controller_type = [c \in Chans |-> ControllerType_None]
  /\ s_controller_rumble = [c \in Chans |-> 0]
  /\ s_controller_payload = Zeros(CONTROLER_INPUT_PAYLOAD_EXPECTED_SIZE)
  /\ s_controller_payload_swap = Zeros(CONTROLER_INPUT_PAYLOAD_EXPECTED_SIZE)
  /\ s_controller_payload_size = 0
  /\ s_adapter_thread_running = FALSE
  /\ s_rumble_data_available = FALSE
  /\ s_init_mutex = ""
  /\ s_adapter_detect_thread_running = FALSE
  /\ s_hotplug_event = FALSE
  /\ s_libusb_hotplug_enabled = FALSE
  /\ s_libusb_context = [id |-> 0, valid |-> FALSE]
  /\ s_endpoint_in = 0
  /\ s_endpoint_out = 0
  /\ s_last_init = 0
  /\ s_config_callback_id = FALSE
  /\ s_config_si_device_type = [c \in Chans |-> FALSE]
  /\ s_config_rumble_enabled = [c \in Chans |-> FALSE]
  /\ thr = [detect |-> "none", input |-> "none", output |-> "none"]
  /\ pc = [t \in Threads |->
            IF t \in {"host", "cpu", "hp"} THEN "idle" ELSE "off"]
  /\ loc = [host |-> HostLocals,
            cpu |-> CpuLocals,
            scan |-> ScanLocals,
            read |-> [payload_size |-> 0],
            write |-> [size |-> 0],
            hp |-> HotplugLocals]
  /\ bus = 0
  /\ plugs_left = plugs
  /\ hp_registered = 0
  /\ hp_queue = <<>>
  /\ core_running \in cores
  /\ ticks = 0
  /\ config_store \in {[use |-> c.use, rumble |-> c.rumble, callbacks |-> 0] : c \in cfgs}
  /\ reads_left = reads
  /\ read_log = <<>>
  /\ out_log = <<>>
  /\ open_handles = 0
  /\ claimed = FALSE
  /\ notified = NO_ADAPTER_DETECTED
  /\ redundant_cb = FALSE
  /\ calls = <<>>
  /\ since = [prev |-> FALSE, cur |-> FALSE]
  /\ cpu_left = cpu
  /\ host_left = host
  /\ terminated = FALSE
  /\ outs = <<>>
  /\ android = AndroidStatics

InitWith(reads, cpu, host, plugs) ==
  InitFrom(reads, cpu, host, plugs, {PortZeroConfig}, {FALSE})

Init == InitWith(LifeReads, MaxCpuCalls, MaxHostCalls, MaxPlugs)

(* ----------------------- ScanThreadFunc (libusb) ------------------------ *)
\* lines 347-360: hotplug capability and registration; LIBUSB_HOTPLUG_ENUMERATE
\* delivers ARRIVED for an attached adapter inside the registration call
ScanThreadFunc_Register ==
  /\ pc["scan"] = "sc_start"
  /\ \E en \in BOOLEAN :
       /\ s_libusb_hotplug_enabled' = en
       /\ hp_registered' = IF en THEN s_libusb_context.id ELSE hp_registered
       /\ s_hotplug_event' = (s_hotplug_event \/ (en /\ bus # 0 /\ s_handle = 0))
  /\ Goto("scan", "sc_loop")
  /\ UNCHANGED <<s_status, vNotify, vHandle, vPorts, vBuf, vIO, s_init_mutex,
                 s_adapter_detect_thread_running, s_libusb_context, vCfg, thr,
                 loc, vEnv, hp_queue, vHist, vCount, terminated, android>>

\* a scan loop that does not look at its run flag
ScanThreadFunc_Forever ==
  /\ pc["scan"] = "sc_loop"
  /\ Goto("scan", "sc_check")
  /\ UNCHANGED <<s_status, vNotify, vHandle, vPorts, vBuf, vIO, s_init_mutex, vScan,
                 vCtx, vCfg, thr, loc, vEnv, hp_queue, vHist, vCount, terminated, android>>

\* line 363: while (s_adapter_detect_thread_running.IsSet())
ScanThreadFunc_Loop ==
  /\ pc["scan"] = "sc_loop"
  /\ IF s_adapter_detect_thread_running
       THEN Goto("scan", "sc_check") /\ thr' = thr
       ELSE Goto("scan", "off") /\ thr' = [thr EXCEPT !.detect = "exited"]
  /\ UNCHANGED <<s_status, vNotify, vHandle, vPorts, vBuf, vIO, s_init_mutex, vScan,
                 vCtx, vCfg, loc, vEnv, hp_queue, vHist, vCount, terminated, android>>

\* line 365: if (s_handle == nullptr)
ScanThreadFunc_Check ==
  /\ pc["scan"] = "sc_check"
  /\ Goto("scan", IF s_handle = 0 THEN "sc_lock" ELSE "sc_wait")
  /\ UNCHANGED <<s_status, vNotify, vHandle, vPorts, vBuf, vIO, s_init_mutex, vScan,
                 vCtx, vCfg, thr, loc, vEnv, hp_queue, vHist, vCount, terminated, android>>

\* lines 371-374: wait for the hotplug event, or sleep 500 ms
ScanThreadFunc_Wait ==
  /\ pc["scan"] = "sc_wait"
  /\ s_libusb_hotplug_enabled => s_hotplug_event
  /\ s_hotplug_event' = IF s_libusb_hotplug_enabled THEN FALSE ELSE s_hotplug_event
  /\ Goto("scan", "sc_loop")
  /\ UNCHANGED <<s_status, vNotify, vHandle, vPorts, vBuf, vIO, s_init_mutex,
                 s_adapter_detect_thread_running, s_libusb_hotplug_enabled,
                 vCtx, vCfg, thr, loc, vEnv, hp_queue, vHist, vCount, terminated, android>>

(* -------------------------------- Setup --------------------------------- *)
\* a test that looks at the vendor only
IsNintendo(d) == d.vid = GC_VENDOR

\* line 509-522: a device passes the vendor/product test
IsAdapter(d) == d.vid = GC_VENDOR /\ d.pid = GC_PRODUCT

\* lines 481-489: the enumeration passes over the devices that are no adapter
RECURSIVE SkipOthers(_)
SkipOthers(devs) ==
  IF devs = <<>> \/ IsAdapter(Head(devs)) THEN devs ELSE SkipOthers(Tail(devs))

\* line 367 and lines 472-481: take s_init_mutex (blocking), remember the status,
\* replace an error status by "not detected", clear the per-port state and
\* list the devices on the bus
Setup_Begin ==
  /\ pc["scan"] = "sc_lock"
  /\ s_init_mutex = ""
  /\ s_init_mutex' = "scan"
  /\ loc' = [loc EXCEPT !["scan"].prev_status = s_status,
                        !["scan"].devs =
               (IF bus # 0 THEN <<AdapterDevice(bus)>> ELSE <<>>) \o <<OtherDevice>>]
  /\ s_status' = IF s_status < 0 THEN NO_ADAPTER_DETECTED ELSE s_status
  /\ s_controller_type' = [c \in Chans |-> ControllerType_None]
  /\ s_controller_rumble' = [c \in Chans |-> 0]
  /\ Goto("scan", "st_next")
  /\ Disturb
  /\ UNCHANGED <<vNotify, vHandle, vBuf, vIO, vScan, vCtx, vCfg, thr, vEnv,
                 hp_queue, reads_left, read_log, out_log, calls, outs, vCount,
                 terminated, android>>

(* -------------------------- CheckDeviceAccess --------------------------- *)
\* a scope guard that does not store the error
GuardLost(ret) == s_status' = s_status

\* line 528: the scope guard stores ret in s_status when CheckDeviceAccess
\* returns without dismissing it
GuardFires(ret) == s_status' = ret

\* lines 481-489 and 509-545: the next adapter of the list; its descriptor may
\* fail to read (the device is passed over), then libusb_open, whose failure
\* the scope guard stores in s_status
CheckDeviceAccess_Open ==
  /\ pc["scan"] = "st_next"
  /\ LET rest == SkipOthers(loc["scan"].devs) IN
       IF rest = <<>>
         THEN /\ Goto("scan", "st_end")
              /\ loc' = [loc EXCEPT !["scan"].devs = <<>>,
                                    !["scan"].ret = 0,
                                    !["scan"].status_guard = FALSE]
              /\ UNCHANGED <<s_handle, open_handles, out_log, s_status>>
         ELSE \E d \in {0, LIBUSB_ERROR_IO} :
                   IF d # 0
                     THEN /\ Goto("scan", "st_next")
                          /\ loc' = [loc EXCEPT !["scan"].devs = Tail(rest),
                                                !["scan"].ret = d,
                                                !["scan"].status_guard = FALSE]
                          /\ UNCHANGED <<s_handle, open_handles, out_log, s_status>>
                     ELSE \E r \in (IF Head(rest).obj = bus
                                      THEN {0, LIBUSB_ERROR_ACCESS}
                                      ELSE {LIBUSB_ERROR_IO}) :
                            /\ loc' = [loc EXCEPT !["scan"].devs = Tail(rest),
                                                  !["scan"].ret = r,
                                                  !["scan"].status_guard = TRUE]
                            /\ IF r = 0
                                 THEN /\ s_handle' = Head(rest).obj
                                      /\ open_handles' = open_handles + 1
                                      /\ out_log' = <<>>
                                      /\ s_status' = s_status
                                      /\ Goto("scan", "cd_claim")
                                 ELSE /\ GuardFires(r)
                                      /\ Goto("scan", "st_next")
                                      /\ UNCHANGED <<s_handle, open_handles, out_log>>
  /\ UNCHANGED <<vNotify, claimed, s_endpoint_in, s_endpoint_out, vPorts, vBuf, vIO,
                 s_init_mutex, vScan, vCtx, vCfg, thr, vEnv, hp_queue,
                 reads_left, read_log, calls, outs, since, vCount, terminated, android>>

\* lines 547-588: kernel driver query and detach, the control transfer, then
\* libusb_claim_interface; a failed detach or claim closes the handle and
\* stores the error
CheckDeviceAccess_Claim ==
  /\ pc["scan"] = "cd_claim"
  /\ \E active \in {0, 1},
        r \in {0, LIBUSB_ERROR_NOT_FOUND, LIBUSB_ERROR_NOT_SUPPORTED, LIBUSB_ERROR_IO},
        c \in {0, LIBUSB_ERROR_BUSY, LIBUSB_ERROR_IO} :
       LET ret2 == IF active = 1 THEN r ELSE active
           detach_failed == active = 1 /\ ret2 < 0 /\ ret2 # LIBUSB_ERROR_NOT_FOUND
                            /\ ret2 # LIBUSB_ERROR_NOT_SUPPORTED
       IN /\ active = 0 => r = 0
          /\ c \in (IF detach_failed THEN {0}
                    ELSE IF HandleAlive THEN {0, LIBUSB_ERROR_BUSY}
                    ELSE {LIBUSB_ERROR_IO})
          /\ IF detach_failed \/ c # 0
               THEN /\ s_handle' = 0
                    /\ open_handles' = open_handles - 1
                    /\ claimed' = claimed
                    /\ GuardFires(IF detach_failed THEN ret2 ELSE c)
                    /\ Goto("scan", "st_next")
                    /\ loc' = [loc EXCEPT !["scan"].ret =
                                            IF detach_failed THEN ret2 ELSE c]
               ELSE /\ Goto("scan", "ag_start")
                    \* line 586: the guard is dismissed; line 486: the
                    \* enumeration stops after AddGCAdapter
                    /\ loc' = [loc EXCEPT !["scan"].devs = <<>>,
                                          !["scan"].ret = 0,
                                          !["scan"].status_guard = FALSE]
                    /\ claimed' = TRUE
                    /\ UNCHANGED <<s_handle, open_handles, s_status>>
  /\ UNCHANGED <<vNotify, s_endpoint_in, s_endpoint_out, vPorts, vBuf, vIO,
                 s_init_mutex, vScan, vCtx, vCfg, thr, vEnv, hp_queue,
                 vHist, vCount, terminated, android>>

(* ----------------------------- AddGCAdapter ----------------------------- *)
EndpointIn == 129
EndpointOut == 2

\* the 5-byte rumble payload built from s_controller_rumble
RumblePayload == <<RUMBLE_OPCODE, s_controller_rumble[0], s_controller_rumble[1],
                   s_controller_rumble[2], s_controller_rumble[3]>>

\* an AddGCAdapter that starts the threads without sending the init payload
AddGCAdapter_NoInit ==
  /\ pc["scan"] = "ag_start"
  /\ s_endpoint_in' = EndpointIn
  /\ s_endpoint_out' = EndpointOut
  /\ s_adapter_thread_running' = TRUE
  /\ thr' = [thr EXCEPT !.input = "live", !.output = "live"]
  /\ pc' = [pc EXCEPT !["scan"] = "ag_status", !["read"] = "rd_loop",
                      !["write"] = "wr_wait"]
  /\ UNCHANGED <<s_status, vNotify, s_handle, open_handles, claimed, vPorts, vBuf,
                 s_rumble_data_available, s_init_mutex, vScan, vCtx, vCfg, vEnv,
                 hp_queue, vHist, vCount, loc, terminated, android>>

\* lines 593-619: resolve the endpoints, send the init payload, set the run
\* flag, start the read and the write thread (assigning to a joinable
\* std::thread calls std::terminate)
AddGCAdapter_Start ==
  /\ pc["scan"] = "ag_start"
  /\ s_endpoint_in' = EndpointIn
  /\ s_endpoint_out' = EndpointOut
  /\ out_log' = Append(out_log, <<INIT_OPCODE>>)
  /\ s_adapter_thread_running' = TRUE
  /\ thr' = [thr EXCEPT !.input = "live", !.output = "live"]
  /\ terminated' = (terminated \/ thr.input # "none" \/ thr.output # "none")
  /\ pc' = [pc EXCEPT !["scan"] = "ag_status", !["read"] = "rd_loop",
                      !["write"] = "wr_wait"]
  /\ loc' = [loc EXCEPT !["read"].payload_size = 0, !["write"].size = 0]
  /\ UNCHANGED <<s_status, vNotify, s_handle, open_handles, claimed, vPorts, vBuf,
                 s_rumble_data_available, s_init_mutex, vScan, vCtx, vCfg, vEnv,
                 hp_queue, reads_left, read_log, calls, outs, since, vCount, android>>

\* lines 621-623: the status becomes Detected and the callback runs
AddGCAdapter_Status ==
  /\ pc["scan"] = "ag_status"
  /\ s_status' = ADAPTER_DETECTED
  /\ DetectCallback(ADAPTER_DETECTED)
  /\ Goto("scan", "rr_check")
  /\ UNCHANGED <<vHandle, vPorts, vBuf, vIO, s_init_mutex, vScan, vCtx, vCfg, thr,
                 loc, vEnv, hp_queue, vHist, vCount, terminated, android>>

(* ------------------------ ResetRumbleLockNeeded ------------------------- *)
\* run by the scan thread at the end of AddGCAdapter and by the cpu thread in
\* ResetRumble, with s_init_mutex held
RumbleBack(t) == IF t = "scan" THEN "st_end" ELSE "rr_unlock"

\* lines 844-849: the guard, then the fill
ResetRumbleLockNeeded_Fill(t) ==
  /\ pc[t] = "rr_check"
  /\ IF ~UseAdapter \/ s_handle = 0 \/ s_status # ADAPTER_DETECTED
       THEN Goto(t, RumbleBack(t)) /\ UNCHANGED s_controller_rumble
       ELSE /\ s_controller_rumble' = [c \in Chans |-> 0]
            /\ Goto(t, "rr_send")
  /\ UNCHANGED <<s_status, vNotify, vHandle, s_controller_type, vBuf, vIO,
                 s_init_mutex, vScan, vCtx, vCfg, thr, loc, vEnv, hp_queue,
                 vHist, vCount, terminated, android>>

\* lines 851-857: build the payload from the array and write it
ResetRumbleLockNeeded_Send(t) ==
  /\ pc[t] = "rr_send"
  /\ out_log' = Append(out_log, RumblePayload)
  /\ Goto(t, RumbleBack(t))
  /\ UNCHANGED <<s_status, vNotify, vHandle, vPorts, vBuf, vIO,
                 s_init_mutex, vScan, vCtx, vCfg, thr, loc, vEnv, hp_queue,
                 reads_left, read_log, calls, outs, since, vCount, terminated, android>>

\* lines 491-492 and the end of the lock_guard's scope at line 369
Setup_End ==
  /\ pc["scan"] = "st_end"
  /\ IF s_status # ADAPTER_DETECTED /\ loc["scan"].prev_status # s_status
       THEN DetectCallback(s_status)
       ELSE UNCHANGED vNotify
  /\ s_init_mutex' = ""
  /\ loc' = [loc EXCEPT !["scan"] = ScanLocals]
  /\ Goto("scan", "sc_wait")
  /\ UNCHANGED <<s_status, vHandle, vPorts, vBuf, vIO, vScan, vCtx, vCfg, thr,
                 vEnv, hp_queue, vHist, vCount, terminated, android>>

(* ----------------------------- Read (libusb) ---------------------------- *)
\* the bytes a transfer of n bytes of report k leaves in buffer b
Overwrite(b, k, n) ==
  [i \in 1 .. CONTROLER_INPUT_PAYLOAD_EXPECTED_SIZE |->
     IF i <= n THEN DevicePayload(k)[i] ELSE b[i]]

\* lines 168-174: the loop test, then the timed interrupt transfer into the swap
\* buffer. The transfer delivers a full report, a short one, times out with
\* nothing transferred, or fails before it is submitted, which leaves
\* payload_size as it was.
Read_Transfer ==
  /\ pc["read"] = "rd_loop"
  /\ IF ~s_adapter_thread_running
       THEN /\ Goto("read", "off")
            /\ thr' = [thr EXCEPT !.input = "exited"]
            /\ UNCHANGED <<loc, reads_left, s_controller_payload_swap, read_log>>
       ELSE /\ Goto("read", "rd_swap")
            /\ thr' = thr
            /\ \E outcome \in {"full", "short", "timeout", "error"} :
                 CASE outcome \in {"full", "short"} ->
                        LET n == IF outcome = "full"
                                   THEN CONTROLER_INPUT_PAYLOAD_EXPECTED_SIZE
                                   ELSE ShortLen
                            b == Overwrite(s_controller_payload_swap, reads_left, n)
                        IN /\ HandleAlive
                           /\ reads_left > 0
                           /\ reads_left' = reads_left - 1
                           /\ s_controller_payload_swap' = b
                           /\ read_log' = Append(read_log, [data |-> b, size |-> n])
                           /\ loc' = [loc EXCEPT !["read"].payload_size = n]
                   [] outcome = "timeout" ->
                           /\ loc' = [loc EXCEPT !["read"].payload_size = 0]
                           /\ UNCHANGED <<reads_left, s_controller_payload_swap, read_log>>
                   [] OTHER ->
                           /\ UNCHANGED <<loc, reads_left, s_controller_payload_swap,
                                          read_log>>
  /\ UNCHANGED <<s_status, vNotify, vHandle, vPorts, s_controller_payload,
                 s_controller_payload_size, vIO, s_init_mutex, vScan, vCtx, vCfg,
                 vEnv, hp_queue, out_log, calls, outs, since, vCount, terminated, android>>

\* lines 176-182: under s_mutex, swap the buffers and record the size. Every
\* access to the active buffer and its size is made under s_mutex, which is
\* held for nothing else, so each such block is one step.
Read_Swap ==
  /\ pc["read"] = "rd_swap"
  /\ s_controller_payload' = s_controller_payload_swap
  /\ s_controller_payload_swap' = s_controller_payload
  /\ s_controller_payload_size' = loc["read"].payload_size
  /\ Goto("read", "rd_loop")
  /\ UNCHANGED <<s_status, vNotify, vHandle, vPorts, vIO, s_init_mutex, vScan,
                 vCtx, vCfg, thr, loc, vEnv, hp_queue, vHist, vCount,
                 terminated, android>>

(* ---------------------------- Write (libusb) ---------------------------- *)
\* line 256: s_rumble_data_available.Wait() returns once the event is set and
\* resets it
Write_Wait ==
  /\ pc["write"] = "wr_wait"
  /\ s_rumble_data_available
  /\ s_rumble_data_available' = FALSE
  /\ Goto("write", "wr_send")
  /\ UNCHANGED <<s_status, vNotify, vHandle, vPorts, vBuf, s_adapter_thread_running,
                 s_init_mutex, vScan, vCtx, vCfg, thr, loc, vEnv, hp_queue,
                 vHist, vCount, terminated, android>>

\* lines 258-272: leave when the run flag is clear, else build and write the
\* rumble payload; a failed write is only logged
Write_Send ==
  /\ pc["write"] = "wr_send"
  /\ IF ~s_adapter_thread_running
       THEN /\ Goto("write", "off")
            /\ thr' = [thr EXCEPT !.output = "exited"]
            /\ out_log' = out_log
       ELSE /\ Goto("write", "wr_wait")
            /\ out_log' = Append(out_log, RumblePayload)
            /\ thr' = thr
  /\ UNCHANGED <<s_status, vNotify, vHandle, vPorts, vBuf, vIO, s_init_mutex, vScan,
                 vCtx, vCfg, loc, vEnv, hp_queue, reads_left, read_log, calls, outs, since,
                 vCount, terminated, android>>

(* ----------------------------- Reset (libusb) --------------------------- *)
\* a thread t calls Reset; the locals note
\* whether a session was open at the call
CallReset(t) ==
  /\ pc' = [pc EXCEPT ![t] = "rs_try"]
  /\ loc' = [loc EXCEPT ![t].skipped = FALSE, ![t].open = (s_handle # 0)]

\* where Reset returns to: line 638 in Shutdown, line 326 in HotplugCallback
ResetReturn(t) == IF t = "host" THEN "sd_release" ELSE "hp_after"

\* lines 654-656: try_lock, return when the lock is taken
Reset_TryLock(t) ==
  /\ pc[t] = "rs_try"
  /\ IF s_init_mutex = ""
       THEN s_init_mutex' = t /\ Goto(t, "rs_status") /\ loc' = loc
       ELSE /\ s_init_mutex' = s_init_mutex
            /\ Goto(t, ResetReturn(t))
            /\ loc' = [loc EXCEPT ![t].skipped = TRUE]
  /\ UNCHANGED <<s_status, vNotify, vHandle, vPorts, vBuf, vIO, vScan, vCtx, vCfg,
                 thr, vEnv, hp_queue, vHist, vCount, terminated, android>>

\* lines 657-658: return unless the status is Detected
Reset_Status(t) ==
  /\ pc[t] = "rs_status"
  /\ IF s_status # ADAPTER_DETECTED
       THEN s_init_mutex' = "" /\ Goto(t, ResetReturn(t))
       ELSE s_init_mutex' = s_init_mutex /\ Goto(t, "rs_clear")
  /\ UNCHANGED <<s_status, vNotify, vHandle, vPorts, vBuf, vIO, vScan, vCtx, vCfg,
                 thr, loc, vEnv, hp_queue, vHist, vCount, terminated, android>>

\* line 660: s_adapter_thread_running.TestAndClear()
Reset_Clear(t) ==
  /\ pc[t] = "rs_clear"
  /\ s_adapter_thread_running' = FALSE
  /\ Goto(t, IF s_adapter_thread_running THEN "rs_signal" ELSE "rs_fill")
  /\ UNCHANGED <<s_status, vNotify, vHandle, vPorts, vBuf, s_rumble_data_available,
                 s_init_mutex, vScan, vCtx, vCfg, thr, loc, vEnv, hp_queue,
                 vHist, vCount, terminated, android>>

\* line 662: s_rumble_data_available.Set()
Reset_Signal(t) ==
  /\ pc[t] = "rs_signal"
  /\ s_rumble_data_available' = TRUE
  /\ Goto(t, "rs_join_in")
  /\ UNCHANGED <<s_status, vNotify, vHandle, vPorts, vBuf, s_adapter_thread_running,
                 s_init_mutex, vScan, vCtx, vCfg, thr, loc, vEnv, hp_queue,
                 vHist, vCount, terminated, android>>

\* a Reset that goes on without waiting for the read thread
Reset_NoJoinInput(t) ==
  /\ pc[t] = "rs_join_in"
  /\ Goto(t, "rs_join_out")
  /\ UNCHANGED <<s_status, vNotify, vHandle, vPorts, vBuf, vIO, s_init_mutex, vScan,
                 vCtx, vCfg, thr, loc, vEnv, hp_queue, vHist, vCount, terminated, android>>

\* line 663: s_adapter_input_thread.join()
Reset_JoinInput(t) ==
  /\ pc[t] = "rs_join_in"
  /\ thr.input = "exited"
  /\ thr' = [thr EXCEPT !.input = "none"]
  /\ Goto(t, "rs_join_out")
  /\ UNCHANGED <<s_status, vNotify, vHandle, vPorts, vBuf, vIO, s_init_mutex, vScan,
                 vCtx, vCfg, loc, vEnv, hp_queue, vHist, vCount, terminated, android>>

\* line 664: s_adapter_output_thread.join()
Reset_JoinOutput(t) ==
  /\ pc[t] = "rs_join_out"
  /\ thr.output = "exited"
  /\ thr' = [thr EXCEPT !.output = "none"]
  /\ Goto(t, "rs_fill")
  /\ UNCHANGED <<s_status, vNotify, vHandle, vPorts, vBuf, vIO, s_init_mutex, vScan,
                 vCtx, vCfg, loc, vEnv, hp_queue, vHist, vCount, terminated, android>>

\* line 674: s_controller_type.fill(ControllerType::None)
Reset_Fill(t) ==
  /\ pc[t] = "rs_fill"
  /\ s_controller_type' = [c \in Chans |-> ControllerType_None]
  /\ Disturb
  /\ Goto(t, "rs_setstatus")
  /\ UNCHANGED <<s_status, vNotify, vHandle, s_controller_rumble, vBuf, vIO,
                 s_init_mutex, vScan, vCtx, vCfg, thr, loc, vEnv, hp_queue,
                 reads_left, read_log, out_log, calls, outs, vCount, terminated, android>>

\* a Reset that leaves the status as it is
Reset_KeepStatus(t) ==
  /\ pc[t] = "rs_setstatus"
  /\ Goto(t, "rs_close")
  /\ UNCHANGED <<s_status, vNotify, vHandle, vPorts, vBuf, vIO, s_init_mutex, vScan,
                 vCtx, vCfg, thr, loc, vEnv, hp_queue, vHist, vCount, terminated,
                 android>>

\* line 677: s_status = NO_ADAPTER_DETECTED
Reset_SetStatus(t) ==
  /\ pc[t] = "rs_setstatus"
  /\ s_status' = NO_ADAPTER_DETECTED
  /\ Goto(t, "rs_close")
  /\ UNCHANGED <<vNotify, vHandle, vPorts, vBuf, vIO, s_init_mutex, vScan, vCtx,
                 vCfg, thr, loc, vEnv, hp_queue, vHist, vCount, terminated, android>>

\* lines 679-693: release and close the handle, run the callback, and return,
\* which unlocks s_init_mutex
Reset_Close(t) ==
  /\ pc[t] = "rs_close"
  /\ s_handle' = 0
  /\ open_handles' = IF s_handle # 0 THEN open_handles - 1 ELSE open_handles
  /\ claimed' = FALSE
  /\ DetectCallback(s_status)
  /\ s_init_mutex' = ""
  /\ Goto(t, ResetReturn(t))
  /\ UNCHANGED <<s_status, s_endpoint_in, s_endpoint_out, vPorts, vBuf, vIO, vScan,
                 vCtx, vCfg, thr, loc, vEnv, hp_queue, vHist, vCount,
                 terminated, android>>

(* --------------------------- HotplugCallback ---------------------------- *)
\* the event thread takes the next notification and enters the callback;
\* lines 316-320: ARRIVED signals the scan thread when no handle is open
HotplugCallback_Arrived ==
  /\ pc["hp"] = "idle"
  /\ hp_queue # <<>>
  /\ Head(hp_queue).event = "ARRIVED"
  /\ hp_queue' = Tail(hp_queue)
  /\ s_hotplug_event' = (s_hotplug_event \/ s_handle = 0)
  /\ UNCHANGED <<s_status, vNotify, vHandle, vPorts, vBuf, vIO, s_init_mutex,
                 s_adapter_detect_thread_running, s_libusb_hotplug_enabled, vCtx,
                 vCfg, thr, pc, loc, vEnv, vHist, vCount, terminated, android>>

\* lines 321-324: LEFT for the device of the open handle calls Reset
HotplugCallback_Left ==
  /\ pc["hp"] = "idle"
  /\ hp_queue # <<>>
  /\ Head(hp_queue).event = "LEFT"
  /\ hp_queue' = Tail(hp_queue)
  /\ IF s_handle # 0 /\ s_handle = Head(hp_queue).dev
       THEN /\ pc' = [pc EXCEPT !["hp"] = "rs_try"]
            /\ loc' = [loc EXCEPT !["hp"] = [event |-> "LEFT", dev |-> Head(hp_queue).dev,
                                             skipped |-> FALSE, open |-> TRUE]]
       ELSE /\ Goto("hp", "hp_err")
            /\ loc' = [loc EXCEPT !["hp"] = [event |-> "LEFT", dev |-> Head(hp_queue).dev,
                                             skipped |-> FALSE, open |-> FALSE]]
  /\ UNCHANGED <<s_status, vNotify, vHandle, vPorts, vBuf, vIO, s_init_mutex, vScan,
                 vCtx, vCfg, thr, vEnv, vHist, vCount, terminated, android>>

\* Reset has returned to the callback
HotplugCallback_AfterReset ==
  /\ pc["hp"] = "hp_after"
  /\ Goto("hp", "hp_err")
  /\ UNCHANGED <<s_status, vNotify, vHandle, vPorts, vBuf, vIO, s_init_mutex, vScan,
                 vCtx, vCfg, thr, loc, vEnv, hp_queue, vHist, vCount,
                 terminated, android>>

\* line 327: if (s_status < 0)
HotplugCallback_ErrCheck ==
  /\ pc["hp"] = "hp_err"
  /\ Goto("hp", IF s_status < 0 THEN "hp_clear" ELSE "idle")
  /\ loc' = [loc EXCEPT !["hp"] = HotplugLocals]
  /\ UNCHANGED <<s_status, vNotify, vHandle, vPorts, vBuf, vIO, s_init_mutex, vScan,
                 vCtx, vCfg, thr, vEnv, hp_queue, vHist, vCount,
                 terminated, android>>

\* lines 329-331: clear the error status and run the callback
HotplugCallback_ErrClear ==
  /\ pc["hp"] = "hp_clear"
  /\ s_status' = NO_ADAPTER_DETECTED
  /\ DetectCallback(NO_ADAPTER_DETECTED)
  /\ Goto("hp", "idle")
  /\ UNCHANGED <<vHandle, vPorts, vBuf, vIO, s_init_mutex, vScan, vCtx, vCfg, thr,
                 loc, vEnv, hp_queue, vHist, vCount, terminated, android>>

(* ---------------------------- the USB bus ------------------------------- *)
\* the transport delivers notifications while the callback is registered on the
\* live context
HotplugLive == hp_registered # 0 /\ hp_registered = s_libusb_context.id

Plug ==
  /\ bus = 0
  /\ plugs_left > 0
  /\ plugs_left' = plugs_left - 1
  /\ bus' = plugs_left
  /\ hp_queue' = IF HotplugLive
                   THEN Append(hp_queue, [event |-> "ARRIVED", dev |-> plugs_left])
                   ELSE hp_queue
  /\ UNCHANGED <<s_status, vNotify, vHandle, vPorts, vBuf, vIO, s_init_mutex, vScan,
                 vCtx, vCfg, thr, pc, loc, core_running, ticks, config_store,
                 vHist, vCount, terminated, android>>

Unplug ==
  /\ bus # 0
  /\ bus' = 0
  /\ hp_queue' = IF HotplugLive
                   THEN Append(hp_queue, [event |-> "LEFT", dev |-> bus])
                   ELSE hp_queue
  /\ UNCHANGED <<s_status, vNotify, vHandle, vPorts, vBuf, vIO, s_init_mutex, vScan,
                 vCtx, vCfg, thr, pc, loc, plugs_left, core_running, ticks,
                 config_store, vHist, vCount, terminated, android>>

(* ------------------------ the configuration store ---------------------- *)
\* no port uses the adapter; port 0 keeps rumble enabled
NoPortConfig == [use |-> [c \in Chans |-> FALSE], rumble |-> [c \in Chans |-> c = 0]]

\* the configurations the user switches between
Configs == {PortZeroConfig, NoPortConfig}

\* the user changes the configuration; the store runs its registered callback
\* RefreshConfig (lines 400-407), which takes the snapshot
ConfigChanged ==
  /\ \E cfg \in Configs :
       /\ cfg.use # config_store.use \/ cfg.rumble # config_store.rumble
       /\ config_store' = [config_store EXCEPT !.use = cfg.use, !.rumble = cfg.rumble]
       /\ IF config_store.callbacks > 0
            THEN /\ s_config_si_device_type' = cfg.use
                 /\ s_config_rumble_enabled' = cfg.rumble
            ELSE UNCHANGED <<s_config_si_device_type, s_config_rumble_enabled>>
  /\ UNCHANGED <<s_status, vNotify, vHandle, vPorts, vBuf, vIO, s_init_mutex, vScan,
                 vCtx, s_last_init, s_config_callback_id, thr, pc, loc, bus,
                 plugs_left, core_running, ticks, hp_queue, vHist, vCount,
                 terminated, android>>

\* the emulated clock advances while the core runs
Tick ==
  /\ core_running
  /\ ticks < MaxTicks
  /\ ticks' = ticks + 1
  /\ UNCHANGED <<s_status, vNotify, vHandle, vPorts, vBuf, vIO, s_init_mutex, vScan,
                 vCtx, vCfg, thr, pc, loc, bus, plugs_left, core_running,
                 config_store, hp_queue, vHist, vCount, terminated, android>>

\* the core starts, which restarts the emulated clock, or stops
CoreStateChanged ==
  /\ core_running' = ~core_running
  /\ ticks' = IF core_running THEN ticks ELSE 0
  /\ UNCHANGED <<s_status, vNotify, vHandle, vPorts, vBuf, vIO, s_init_mutex, vScan,
                 vCtx, vCfg, thr, pc, loc, bus, plugs_left, config_store,
                 hp_queue, vHist, vCount, terminated, android>>

(* --------------------------------- Init --------------------------------- *)
\* the context owns the event thread that runs HotplugCallback: destroying a
\* context waits for a running callback and drops its registrations
ContextIdle == pc["hp"] = "idle"

\* (CoreTiming::GetTicks() - s_last_init) < GetTicksPerSecond(), in u64
\* arithmetic: a clock behind s_last_init wraps to a huge difference
WithinOneSecond == ticks >= s_last_init /\ ticks - s_last_init < TicksPerSecond

\* lines 412-413: return when a handle is open
Init_Handle ==
  /\ pc["host"] = "idle"
  /\ host_left > 0
  /\ host_left' = host_left - 1
  /\ Goto("host", IF s_handle # 0 THEN "idle" ELSE "in_ctx")
  /\ UNCHANGED <<s_status, vNotify, vHandle, vPorts, vBuf, vIO, s_init_mutex, vScan,
                 vCtx, vCfg, thr, loc, vEnv, hp_queue, vHist, cpu_left,
                 terminated, android>>

\* lines 415-427: a new context replaces the old one; then the rate limit
Init_Context ==
  /\ pc["host"] = "in_ctx"
  /\ s_libusb_context.id # 0 => ContextIdle
  /\ \E ok \in BOOLEAN : s_libusb_context' = [id |-> host_left + 1, valid |-> ok]
  /\ hp_registered' = 0
  /\ hp_queue' = <<>>
  /\ IF core_running /\ WithinOneSecond
       THEN Goto("host", "idle") /\ s_last_init' = s_last_init
       ELSE /\ Goto("host", "in_status")
            /\ s_last_init' = IF core_running THEN ticks ELSE s_last_init
  /\ UNCHANGED <<s_status, vNotify, vHandle, vPorts, vBuf, vIO, s_init_mutex, vScan,
                 s_config_callback_id, s_config_si_device_type,
                 s_config_rumble_enabled, thr, loc, vEnv, vHist, vCount,
                 terminated, android>>

\* line 430: s_status = NO_ADAPTER_DETECTED
Init_Status ==
  /\ pc["host"] = "in_status"
  /\ s_status' = NO_ADAPTER_DETECTED
  /\ Goto("host", "in_cfg")
  /\ UNCHANGED <<vNotify, vHandle, vPorts, vBuf, vIO, s_init_mutex, vScan, vCtx,
                 vCfg, thr, loc, vEnv, hp_queue, vHist, vCount, terminated, android>>

\* a StartScanThread that does not look whether a scan thread is running
StartScanThread_Unguarded == s_libusb_context.valid

\* StartScanThread, lines 448-455, as a condition: the thread is started
StartScanThread_Starts ==
  /\ ~s_adapter_detect_thread_running
  /\ s_libusb_context.valid

\* lines 438-443: subscribe, RefreshConfig (lines 400-407), and StartScanThread
\* when a port uses the adapter
Init_Config ==
  /\ pc["host"] = "in_cfg"
  /\ s_config_callback_id' = TRUE
  /\ config_store' = [config_store EXCEPT
                        !.callbacks = IF s_config_callback_id THEN @ ELSE @ + 1]
  /\ s_config_si_device_type' = config_store.use
  /\ s_config_rumble_enabled' = config_store.rumble
  /\ IF (\E c \in Chans : config_store.use[c]) /\ StartScanThread_Starts
       THEN /\ s_adapter_detect_thread_running' = TRUE
            /\ thr' = [thr EXCEPT !.detect = "live"]
            /\ terminated' = (terminated \/ thr.detect # "none")
            /\ pc' = [pc EXCEPT !["host"] = "idle", !["scan"] = "sc_start"]
       ELSE /\ Goto("host", "idle")
            /\ UNCHANGED <<s_adapter_detect_thread_running, thr, terminated, android>>
  /\ UNCHANGED <<s_status, vNotify, vHandle, vPorts, vBuf, vIO, s_init_mutex,
                 s_hotplug_event, s_libusb_hotplug_enabled, vCtx, s_last_init,
                 loc, bus, plugs_left, core_running, ticks, hp_queue, vHist,
                 vCount, android>>

(* ------------------------------- Shutdown ------------------------------- *)
\* StopScanThread, lines 460-463: TestAndClear and the signal. Shutdown is
\* called with a context in place (line 633 dereferences it).
Shutdown_Stop ==
  /\ pc["host"] = "idle"
  /\ host_left > 0
  /\ s_libusb_context.id # 0
  /\ host_left' = host_left - 1
  /\ s_adapter_detect_thread_running' = FALSE
  /\ IF s_adapter_detect_thread_running
       THEN s_hotplug_event' = TRUE /\ Goto("host", "sd_join")
       ELSE s_hotplug_event' = s_hotplug_event /\ Goto("host", "sd_dereg")
  /\ UNCHANGED <<s_status, vNotify, vHandle, vPorts, vBuf, vIO, s_init_mutex,
                 s_libusb_hotplug_enabled, vCtx, vCfg, thr, loc, vEnv, hp_queue,
                 vHist, cpu_left, terminated, android>>

\* line 465: s_adapter_detect_thread.join()
Shutdown_Join ==
  /\ pc["host"] = "sd_join"
  /\ thr.detect = "exited"
  /\ thr' = [thr EXCEPT !.detect = "none"]
  /\ Goto("host", "sd_dereg")
  /\ UNCHANGED <<s_status, vNotify, vHandle, vPorts, vBuf, vIO, s_init_mutex, vScan,
                 vCtx, vCfg, loc, vEnv, hp_queue, vHist, vCount, terminated, android>>

\* lines 633-637: deregister the hotplug callback, then call Reset
Shutdown_Deregister ==
  /\ pc["host"] = "sd_dereg"
  /\ IF s_libusb_context.valid /\ s_libusb_hotplug_enabled
       THEN hp_registered' = 0 /\ hp_queue' = <<>>
       ELSE UNCHANGED <<hp_registered, hp_queue>>
  /\ CallReset("host")
  /\ UNCHANGED <<s_status, vNotify, vHandle, vPorts, vBuf, vIO, s_init_mutex, vScan,
                 s_libusb_context, vCfg, thr, vEnv, vHist, vCount, terminated, android>>

\* lines 640-648: release the context, clear the status, unsubscribe
Shutdown_Release ==
  /\ pc["host"] = "sd_release"
  /\ ContextIdle
  /\ s_libusb_context' = [id |-> 0, valid |-> FALSE]
  /\ hp_registered' = 0
  /\ hp_queue' = <<>>
  /\ s_status' = NO_ADAPTER_DETECTED
  /\ s_config_callback_id' = FALSE
  /\ config_store' = [config_store EXCEPT
                        !.callbacks = IF s_config_callback_id THEN @ - 1 ELSE @]
  /\ Goto("host", "sd_done")
  /\ UNCHANGED <<vNotify, vHandle, vPorts, vBuf, vIO, s_init_mutex, vScan,
                 s_last_init, s_config_si_device_type, s_config_rumble_enabled, thr,
                 loc, bus, plugs_left, core_running, ticks, vHist, vCount,
                 terminated, android>>

\* Shutdown returns to its caller
Shutdown_Return ==
  /\ pc["host"] = "sd_done"
  /\ Goto("host", "idle")
  /\ loc' = [loc EXCEPT !["host"] = HostLocals]
  /\ UNCHANGED <<s_status, vNotify, vHandle, vPorts, vBuf, vIO, s_init_mutex, vScan,
                 vCtx, vCfg, thr, vEnv, hp_queue, vHist, vCount,
                 terminated, android>>

(* --------------------------------- Input -------------------------------- *)
\* the rumble commands the cpu thread sends
Commands == {0, 5}

\* a decoder that takes X and Y from each other's bit
ButtonsSwapped(b1, b2) ==
  {n \in {"A", "B", "X", "Y", "LEFT", "RIGHT", "DOWN", "UP", "START", "Z", "R", "L"} :
     CASE n = "A" -> Bit(b1, 0)
       [] n = "B" -> Bit(b1, 1)
       [] n = "X" -> Bit(b1, 3)
       [] n = "Y" -> Bit(b1, 2)
       [] n = "LEFT" -> Bit(b1, 4)
       [] n = "RIGHT" -> Bit(b1, 5)
       [] n = "DOWN" -> Bit(b1, 6)
       [] n = "UP" -> Bit(b1, 7)
       [] n = "START" -> Bit(b2, 0)
       [] n = "Z" -> Bit(b2, 1)
       [] n = "R" -> Bit(b2, 2)
       [] n = "L" -> Bit(b2, 3)}

\* lines 754-779: the button flags of the two button bytes
Buttons(b1, b2) ==
  {n \in {"A", "B", "X", "Y", "LEFT", "RIGHT", "DOWN", "UP", "START", "Z", "R", "L"} :
     CASE n = "A" -> Bit(b1, 0)
       [] n = "B" -> Bit(b1, 1)
       [] n = "X" -> Bit(b1, 2)
       [] n = "Y" -> Bit(b1, 3)
       [] n = "LEFT" -> Bit(b1, 4)
       [] n = "RIGHT" -> Bit(b1, 5)
       [] n = "DOWN" -> Bit(b1, 6)
       [] n = "UP" -> Bit(b1, 7)
       [] n = "START" -> Bit(b2, 0)
       [] n = "Z" -> Bit(b2, 1)
       [] n = "R" -> Bit(b2, 2)
       [] n = "L" -> Bit(b2, 3)}

\* byte i (from 0) of the record of port chan in payload p
PortByte(p, chan, i) == p[1 + 1 + (9 * chan) + i]

\* line 739: the controller type is the high nibble of the record's first byte
PayloadType(p, chan) == PortByte(p, chan, 0) \div 16

\* line 722-724: the payload is rejected
PayloadInvalid(p, size) ==
  size # CONTROLER_INPUT_PAYLOAD_EXPECTED_SIZE \/ p[1] # LIBUSB_DT_HID

\* lines 751-789: the pad state of a port whose type is not None
DecodePad(p, chan, get_origin) ==
  [button |-> Buttons(PortByte(p, chan, 1), PortByte(p, chan, 2))
              \cup (IF get_origin THEN {"GET_ORIGIN"} ELSE {}),
   stickX |-> PortByte(p, chan, 3), stickY |-> PortByte(p, chan, 4),
   substickX |-> PortByte(p, chan, 5), substickY |-> PortByte(p, chan, 6),
   triggerLeft |-> PortByte(p, chan, 7), triggerRight |-> PortByte(p, chan, 8)]

\* lines 697-706: return the neutral state unless the adapter is in use,
\* open and detected
Input_Begin ==
  /\ pc["cpu"] = "idle"
  /\ cpu_left > 0
  /\ cpu_left' = cpu_left - 1
  /\ since' = [prev |-> since.cur, cur |-> FALSE]
  /\ \E chan \in PolledChans :
       IF ~UseAdapter \/ s_handle = 0 \/ s_status # ADAPTER_DETECTED
         THEN /\ UNCHANGED <<pc, loc>>
              /\ calls' = Append(calls, Returned(chan, FALSE, <<>>, 0, NoPad))
         ELSE /\ loc' = [loc EXCEPT !["cpu"].chan = chan]
              /\ Goto("cpu", "ip_copy")
              /\ calls' = calls
  /\ UNCHANGED <<s_status, vNotify, vHandle, vPorts, vBuf, vIO, s_init_mutex, vScan,
                 vCtx, vCfg, thr, vEnv, hp_queue, reads_left, read_log, out_log,
                 outs, host_left, terminated, android>>

\* lines 711-719: under s_mutex, copy the payload and its size
Input_Copy ==
  /\ pc["cpu"] = "ip_copy"
  /\ loc' = [loc EXCEPT !["cpu"].copy = s_controller_payload,
                        !["cpu"].size = s_controller_payload_size]
  /\ Goto("cpu", "ip_check")
  /\ UNCHANGED <<s_status, vNotify, vHandle, vPorts, vBuf, vIO,
                 s_init_mutex, vScan, vCtx, vCfg, thr, vEnv, hp_queue,
                 vHist, vCount, terminated, android>>

\* lines 721-745: validate the copy; read the type and compare it with the
\* tracked one
Input_Check ==
  /\ pc["cpu"] = "ip_check"
  /\ LET c == loc["cpu"].chan
         p == loc["cpu"].copy
     IN IF PayloadInvalid(p, loc["cpu"].size)
          THEN /\ Goto("cpu", "idle")
               /\ calls' = Append(calls, Returned(c, FALSE, p, 0, NoPad))
               /\ loc' = [loc EXCEPT !["cpu"] = CpuLocals]
          ELSE /\ Goto("cpu", "ip_store")
               /\ calls' = calls
               /\ loc' = [loc EXCEPT
                            !["cpu"].type = PayloadType(p, c),
                            !["cpu"].was = s_controller_type[c],
                            !["cpu"].get_origin =
                               (PayloadType(p, c) # ControllerType_None
                                /\ s_controller_type[c] = ControllerType_None)]
  /\ UNCHANGED <<s_status, vNotify, vHandle, vPorts, vBuf, vIO, s_init_mutex, vScan,
                 vCtx, vCfg, thr, vEnv, hp_queue, reads_left, read_log, out_log,
                 since, outs, vCount, terminated, android>>

\* an Input that does not record the type it has read
Input_NoStore ==
  /\ pc["cpu"] = "ip_store"
  /\ Goto("cpu", "ip_pad")
  /\ UNCHANGED <<s_status, vNotify, vHandle, vPorts, vBuf, vIO,
                 s_init_mutex, vScan, vCtx, vCfg, thr, loc, vEnv, hp_queue,
                 vHist, vCount, terminated, android>>

\* line 747: s_controller_type[chan] = type
Input_Store ==
  /\ pc["cpu"] = "ip_store"
  /\ s_controller_type' = [s_controller_type EXCEPT ![loc["cpu"].chan] = loc["cpu"].type]
  /\ Goto("cpu", "ip_pad")
  /\ UNCHANGED <<s_status, vNotify, vHandle, s_controller_rumble, vBuf, vIO,
                 s_init_mutex, vScan, vCtx, vCfg, thr, loc, vEnv, hp_queue,
                 vHist, vCount, terminated, android>>

\* lines 749-797: decode the record, or flag the missing controller unless the
\* core wants determinism
Input_Pad ==
  /\ pc["cpu"] = "ip_pad"
  /\ \E determinism \in BOOLEAN :
       LET c == loc["cpu"].chan
           p == IF s_controller_type[c] # ControllerType_None
                  THEN DecodePad(loc["cpu"].copy, c, loc["cpu"].get_origin)
                  ELSE IF ~determinism THEN [NoPad EXCEPT !.button = {"ERR_STATUS"}]
                       ELSE NoPad
       IN calls' = Append(calls, Returned(c, TRUE, loc["cpu"].copy, loc["cpu"].was, p))
  /\ Goto("cpu", "idle")
  /\ loc' = [loc EXCEPT !["cpu"] = CpuLocals]
  /\ UNCHANGED <<s_status, vNotify, vHandle, vPorts, vBuf, vIO, s_init_mutex, vScan,
                 vCtx, vCfg, thr, vEnv, hp_queue, reads_left, read_log, out_log,
                 since, outs, vCount, terminated, android>>

\* lines 808-811
ResetDeviceType ==
  /\ pc["cpu"] = "idle"
  /\ cpu_left > 0
  /\ cpu_left' = cpu_left - 1
  /\ \E chan \in PolledChans :
       s_controller_type' = [s_controller_type EXCEPT ![chan] = ControllerType_None]
  /\ Disturb
  /\ UNCHANGED <<s_status, vNotify, vHandle, s_controller_rumble, vBuf, vIO,
                 s_init_mutex, vScan, vCtx, vCfg, thr, pc, loc, vEnv, hp_queue,
                 reads_left, read_log, out_log, calls, outs, host_left, terminated, android>>

(* -------------------------------- Output -------------------------------- *)
\* the ports the cpu thread sends rumble commands to
RumbleChans == {0, 1}

\* an Output that stores and signals without looking at the configuration
Output_NoConfigCheck ==
  /\ pc["cpu"] = "idle"
  /\ cpu_left > 0
  /\ cpu_left' = cpu_left - 1
  /\ \E chan \in RumbleChans, rumble_command \in Commands :
       IF /\ s_handle # 0
          /\ rumble_command # s_controller_rumble[chan]
          /\ s_controller_type[chan] # ControllerType_Wireless
         THEN /\ s_controller_rumble' =
                   [s_controller_rumble EXCEPT ![chan] = rumble_command]
              /\ Goto("cpu", "op_signal")
              /\ outs' = Append(outs, Called(chan, rumble_command, TRUE))
         ELSE /\ UNCHANGED <<s_controller_rumble, pc>>
              /\ outs' = Append(outs, Called(chan, rumble_command, FALSE))
  /\ UNCHANGED <<s_status, vNotify, vHandle, s_controller_type, vBuf, vIO,
                 s_init_mutex, vScan, vCtx, vCfg, thr, loc, vEnv, hp_queue,
                 reads_left, read_log, out_log, calls, since, host_left,
                 terminated, android>>

\* lines 865-880: the guards, and the new command stored for the port
Output_Set ==
  /\ pc["cpu"] = "idle"
  /\ cpu_left > 0
  /\ cpu_left' = cpu_left - 1
  /\ \E chan \in RumbleChans, rumble_command \in Commands :
       IF /\ UseAdapter
          /\ s_config_rumble_enabled[chan]
          /\ s_handle # 0
          /\ rumble_command # s_controller_rumble[chan]
          /\ s_controller_type[chan] # ControllerType_Wireless
         THEN /\ s_controller_rumble' =
                   [s_controller_rumble EXCEPT ![chan] = rumble_command]
              /\ Goto("cpu", "op_signal")
              /\ outs' = Append(outs, Called(chan, rumble_command, TRUE))
         ELSE /\ UNCHANGED <<s_controller_rumble, pc>>
              /\ outs' = Append(outs, Called(chan, rumble_command, FALSE))
  /\ UNCHANGED <<s_status, vNotify, vHandle, s_controller_type, vBuf, vIO,
                 s_init_mutex, vScan, vCtx, vCfg, thr, loc, vEnv, hp_queue,
                 reads_left, read_log, out_log, calls, since, host_left,
                 terminated, android>>

\* line 882: s_rumble_data_available.Set()
Output_Signal ==
  /\ pc["cpu"] = "op_signal"
  /\ s_rumble_data_available' = TRUE
  /\ Goto("cpu", "idle")
  /\ UNCHANGED <<s_status, vNotify, vHandle, vPorts, vBuf, s_adapter_thread_running,
                 s_init_mutex, vScan, vCtx, vCfg, thr, loc, vEnv, hp_queue,
                 vHist, vCount, terminated, android>>

(* ------------------------------ ResetRumble ----------------------------- *)
\* lines 824-827: try_lock, return when the lock is taken
ResetRumble_TryLock ==
  /\ pc["cpu"] = "idle"
  /\ cpu_left > 0
  /\ cpu_left' = cpu_left - 1
  /\ IF s_init_mutex = ""
       THEN s_init_mutex' = "cpu" /\ Goto("cpu", "rr_check")
       ELSE UNCHANGED <<s_init_mutex, pc>>
  /\ UNCHANGED <<s_status, vNotify, vHandle, vPorts, vBuf, vIO, vScan, vCtx, vCfg,
                 thr, loc, vEnv, hp_queue, vHist, host_left, terminated, android>>

\* line 837: the unique_lock's scope ends
ResetRumble_Unlock ==
  /\ pc["cpu"] = "rr_unlock"
  /\ s_init_mutex' = ""
  /\ Goto("cpu", "idle")
  /\ UNCHANGED <<s_status, vNotify, vHandle, vPorts, vBuf, vIO, vScan, vCtx, vCfg,
                 thr, loc, vEnv, hp_queue, vHist, vCount, terminated, android>>

(* --------------------------- the specification -------------------------- *)
ScanStep ==
  \/ ScanThreadFunc_Register \/ ScanThreadFunc_Loop \/ ScanThreadFunc_Check
  \/ ScanThreadFunc_Wait
  \/ Setup_Begin \/ Setup_End
  \/ CheckDeviceAccess_Open \/ CheckDeviceAccess_Claim
  \/ AddGCAdapter_Start \/ AddGCAdapter_Status
  \/ ResetRumbleLockNeeded_Fill("scan") \/ ResetRumbleLockNeeded_Send("scan")

ReadStep == Read_Transfer \/ Read_Swap

WriteStep == Write_Wait \/ Write_Send

ResetStep(t) ==
  \/ Reset_TryLock(t) \/ Reset_Status(t) \/ Reset_Clear(t) \/ Reset_Signal(t)
  \/ Reset_JoinInput(t) \/ Reset_JoinOutput(t) \/ Reset_Fill(t)
  \/ Reset_SetStatus(t) \/ Reset_Close(t)

HotplugStep ==
  \/ HotplugCallback_Arrived \/ HotplugCallback_Left \/ HotplugCallback_AfterReset
  \/ HotplugCallback_ErrCheck \/ HotplugCallback_ErrClear
  \/ ResetStep("hp")

InitStep == Init_Handle \/ Init_Context \/ Init_Status \/ Init_Config

ShutdownStep ==
  \/ Shutdown_Stop \/ Shutdown_Join \/ Shutdown_Deregister \/ Shutdown_Release
  \/ Shutdown_Return
  \/ ResetStep("host")

InputStep ==
  \/ Input_Begin \/ Input_Copy \/ Input_Check \/ Input_Store \/ Input_Pad
  \/ ResetDeviceType

RumbleStep ==
  \/ Output_Set \/ Output_Signal
  \/ ResetRumble_TryLock \/ ResetRumble_Unlock
  \/ ResetRumbleLockNeeded_Fill("cpu") \/ ResetRumbleLockNeeded_Send("cpu")

BusStep == Plug \/ Unplug

\* the lifecycle: the host initialises and shuts down, the adapter comes and
\* goes, the cpu thread drives the rumble; the adapter sends no report
Next ==
  \/ ScanStep \/ ReadStep \/ WriteStep \/ HotplugStep
  \/ InitStep \/ ShutdownStep \/ RumbleStep \/ BusStep

Spec == Init /\ [][Next]_vars

\* the steps that carry on a call the host or the cpu thread has begun
HostRun ==
  \/ Init_Context \/ Init_Status \/ Init_Config
  \/ Shutdown_Join \/ Shutdown_Deregister \/ Shutdown_Release \/ Shutdown_Return
  \/ ResetStep("host")

CpuRun ==
  \/ Output_Signal \/ ResetRumble_Unlock
  \/ ResetRumbleLockNeeded_Fill("cpu") \/ ResetRumbleLockNeeded_Send("cpu")

\* every thread keeps being scheduled; nobody is obliged to begin an API call
\* or to touch the cable
Fairness ==
  /\ WF_vars(ScanStep) /\ WF_vars(ReadStep) /\ WF_vars(WriteStep)
  /\ WF_vars(HotplugStep) /\ WF_vars(HostRun) /\ WF_vars(CpuRun)

SpecFair == Spec /\ Fairness

\* polling: the host initialises once, the adapter comes and goes and sends
\* reports, the cpu thread polls the ports
InitInput == InitWith(MaxReads, MaxInputCalls, InputHostCalls, MaxPlugs)

NextInput ==
  \/ ScanStep \/ ReadStep \/ WriteStep \/ HotplugStep
  \/ InitStep \/ InputStep \/ BusStep

SpecInput == InitInput /\ [][NextInput]_vars

OutputStep == Output_Set \/ Output_Signal

\* rumble: the host initialises once, the adapter comes and goes, the user
\* changes the configuration, the cpu thread sends rumble commands
InitOutput == InitFrom(LifeReads, MaxOutputCalls, InputHostCalls, MaxPlugs,
                       Configs, {FALSE})

NextOutput ==
  \/ ScanStep \/ ReadStep \/ WriteStep \/ HotplugStep
  \/ InitStep \/ OutputStep \/ BusStep \/ ConfigChanged

SpecOutput == InitOutput /\ [][NextOutput]_vars

\* the rumble scenario with a fixed configuration and every thread scheduled
InitCommands == InitWith(LifeReads, MaxOutputCalls, InputHostCalls, MaxPlugs)

NextCommands ==
  \/ ScanStep \/ ReadStep \/ WriteStep \/ HotplugStep
  \/ InitStep \/ OutputStep \/ BusStep

FairCommands ==
  /\ WF_vars(ScanStep) /\ WF_vars(ReadStep) /\ WF_vars(WriteStep)
  /\ WF_vars(HotplugStep) /\ WF_vars(HostRun) /\ WF_vars(Output_Signal)

SpecCommands == InitCommands /\ [][NextCommands]_vars /\ FairCommands

\* initialisation: the host initialises and shuts down repeatedly while the
\* core starts and stops, the clock runs, the user changes the configuration
\* and the adapter comes and goes
InitInit == InitFrom(LifeReads, 0, MaxInitCalls, MaxPlugs, {PortZeroConfig}, {FALSE})

EnvStep == ConfigChanged \/ Tick \/ CoreStateChanged

NextInit ==
  \/ ScanStep \/ ReadStep \/ WriteStep \/ HotplugStep
  \/ InitStep \/ ShutdownStep \/ BusStep \/ EnvStep

SpecInit == InitInit /\ [][NextInit]_vars

\* decoding: a session is up in poll mode, the read thread has delivered one
\* report, and the cpu thread polls the ports. The report holds the same
\* record for every port: type t and the button bytes b1 and b2.
Report(t, b1, b2) ==
  [i \in 1 .. CONTROLER_INPUT_PAYLOAD_EXPECTED_SIZE |->
     IF i = 1 THEN LIBUSB_DT_HID
     ELSE LET o == (i - 2) % 9
          IN CASE o = 0 -> t * 16
               [] o = 1 -> b1
               [] o = 2 -> b2
               [] OTHER -> 128]

\* the values of a u8
Bytes == 0 .. 255

\* the second button byte: every value of its four button bits, and values
\* with the four other bits set
SecondBytes == (0 .. 15) \cup {16, 240, 248, 255}

InitDecode ==
  \E t \in {ControllerType_None, ControllerType_Wired}, b1 \in Bytes,
     b2 \in SecondBytes :
    /\ s_status = ADAPTER_DETECTED
    /\ s_handle = 1
    /\ s_controller_type = [c \in Chans |-> ControllerType_None]
    /\ s_controller_rumble = [c \in Chans |-> 0]
    /\ s_controller_payload = Report(t, b1, b2)
    /\ s_controller_payload_swap = Zeros(CONTROLER_INPUT_PAYLOAD_EXPECTED_SIZE)
    /\ s_controller_payload_size = CONTROLER_INPUT_PAYLOAD_EXPECTED_SIZE
    /\ s_adapter_thread_running = TRUE
    /\ s_rumble_data_available = FALSE
    /\ s_init_mutex = ""
    /\ s_adapter_detect_thread_running = TRUE
    /\ s_hotplug_event = FALSE
    /\ s_libusb_hotplug_enabled = FALSE
    /\ s_libusb_context = [id |-> 1, valid |-> TRUE]
    /\ s_endpoint_in = EndpointIn
    /\ s_endpoint_out = EndpointOut
    /\ s_last_init = 0
    /\ s_config_callback_id = TRUE
    /\ s_config_si_device_type = PortZeroConfig.use
    /\ s_config_rumble_enabled = PortZeroConfig.rumble
    /\ thr = [detect |-> "live", input |-> "live", output |-> "live"]
    /\ pc = [host |-> "idle", cpu |-> "idle", scan |-> "sc_wait",
             read |-> "rd_loop", write |-> "wr_wait", hp |-> "idle"]
    /\ loc = [host |-> HostLocals,
              cpu |-> CpuLocals,
              scan |-> ScanLocals,
              read |-> [payload_size |-> CONTROLER_INPUT_PAYLOAD_EXPECTED_SIZE],
              write |-> [size |-> 0],
              hp |-> HotplugLocals]
    /\ bus = 1
    /\ plugs_left = 0
    /\ hp_registered = 0
    /\ hp_queue = <<>>
    /\ core_running = FALSE
    /\ ticks = 0
    /\ config_store = [use |-> PortZeroConfig.use, rumble |-> PortZeroConfig.rumble,
                       callbacks |-> 1]
    /\ reads_left = 0
    /\ read_log = <<[data |-> Report(t, b1, b2),
                     size |-> CONTROLER_INPUT_PAYLOAD_EXPECTED_SIZE]>>
    /\ out_log = <<<<INIT_OPCODE>>, <<RUMBLE_OPCODE, 0, 0, 0, 0>>>>
    /\ open_handles = 1
    /\ claimed = TRUE
    /\ notified = ADAPTER_DETECTED
    /\ redundant_cb = FALSE
    /\ calls = <<>>
    /\ since = [prev |-> FALSE, cur |-> TRUE]
    /\ cpu_left = MaxDecodeCalls
    /\ host_left = 0
    /\ terminated = FALSE
    /\ outs = <<>>
    /\ android = AndroidStatics

SpecDecode == InitDecode /\ [][InputStep]_vars

(* ----------------- the managed-runtime (Android) variant ---------------- *)
\* the variables that only the libusb variant uses
vNative == <<s_status, notified, redundant_cb, s_handle, open_handles, claimed,
             s_endpoint_in, s_endpoint_out, s_controller_payload_swap,
             s_adapter_thread_running, s_rumble_data_available, s_init_mutex,
             s_hotplug_event, s_libusb_hotplug_enabled, s_libusb_context,
             hp_registered, hp_queue, core_running, ticks, reads_left, read_log,
             out_log>>

\* the configuration and the cable
vAConf == <<s_last_init, s_config_callback_id, s_config_si_device_type,
            s_config_rumble_enabled, config_store, bus, plugs_left>>

\* line 211: what the Java Input() can leave in its array b and return: a full
\* report or a short one from an attached adapter, a failure that leaves the
\* array as it was from a detached one
JavaInput(b) ==
  IF bus = 0
    THEN {[size |-> -1, data |-> b]}
    ELSE {[size |-> CONTROLER_INPUT_PAYLOAD_EXPECTED_SIZE, data |-> DevicePayload(1)],
          [size |-> ShortLen, data |-> Overwrite(b, 1, ShortLen)]}

\* lines 409-444 without the libusb parts: return when a descriptor is held or
\* the rate limit applies; else subscribe, RefreshConfig and StartScanThread
Android_Init ==
  /\ pc["host"] = "idle"
  /\ host_left > 0
  /\ host_left' = host_left - 1
  /\ IF android.s_fd # 0 \/ (core_running /\ WithinOneSecond)
       THEN UNCHANGED <<s_last_init, s_config_callback_id, s_config_si_device_type,
                        s_config_rumble_enabled, config_store,
                        s_adapter_detect_thread_running, thr, pc, terminated>>
       ELSE /\ s_last_init' = IF core_running THEN ticks ELSE s_last_init
            /\ s_config_callback_id' = TRUE
            /\ config_store' = [config_store EXCEPT
                                  !.callbacks = IF s_config_callback_id THEN @ ELSE @ + 1]
            /\ s_config_si_device_type' = config_store.use
            /\ s_config_rumble_enabled' = config_store.rumble
            /\ IF (\E c \in Chans : config_store.use[c])
                  /\ ~s_adapter_detect_thread_running
                 THEN /\ s_adapter_detect_thread_running' = TRUE
                      /\ thr' = [thr EXCEPT !.detect = "live"]
                      /\ terminated' = (terminated \/ thr.detect # "none")
                      /\ Goto("scan", "as_loop")
                 ELSE UNCHANGED <<s_adapter_detect_thread_running, thr, pc,
                                  terminated>>
  /\ UNCHANGED <<vNative, vPorts, s_controller_payload, s_controller_payload_size,
                 loc, bus, plugs_left, calls, since, outs, cpu_left, android>>

\* lines 381-387: the scan loop; QueryAdapter() answers whether an adapter is
\* attached
Android_ScanThreadFunc ==
  /\ pc["scan"] = "as_loop"
  /\ IF ~s_adapter_detect_thread_running
       THEN /\ Goto("scan", "off")
            /\ thr' = [thr EXCEPT !.detect = "exited"]
       ELSE /\ ~android.s_detected
            /\ UseAdapter
            /\ bus # 0
            /\ Goto("scan", "as_setup")
            /\ thr' = thr
  /\ UNCHANGED <<vNative, vAConf, vPorts, s_controller_payload,
                 s_controller_payload_size, s_adapter_detect_thread_running, loc,
                 calls, since, outs, vCount, terminated, android>>

\* lines 494-502: mark the adapter detected, join a read thread whose flag is
\* still set, then start a read thread
Android_Setup ==
  /\ \/ /\ pc["scan"] = "as_setup"
        /\ android' = [android EXCEPT !.s_fd = 0, !.s_detected = TRUE]
        /\ Goto("scan", "as_test")
        /\ UNCHANGED <<thr, terminated>>
     \/ /\ pc["scan"] = "as_test"
        /\ android' = [android EXCEPT !.s_read_adapter_thread_running = FALSE]
        /\ Goto("scan", IF android.s_read_adapter_thread_running
                          THEN "as_join" ELSE "as_start")
        /\ UNCHANGED <<thr, terminated>>
     \/ /\ pc["scan"] = "as_join"
        /\ thr.input = "exited"
        /\ thr' = [thr EXCEPT !.input = "none"]
        /\ Goto("scan", "as_start")
        /\ UNCHANGED <<android, terminated>>
     \/ /\ pc["scan"] = "as_start"
        /\ android' = [android EXCEPT !.s_read_adapter_thread_running = TRUE]
        /\ IF thr.input # "none"
             THEN /\ terminated' = TRUE
                  /\ Goto("scan", "as_loop")
                  /\ thr' = thr
             ELSE /\ terminated' = terminated
                  /\ thr' = [thr EXCEPT !.input = "live"]
                  /\ pc' = [pc EXCEPT !["scan"] = "as_loop", !["read"] = "ar_open"]
  /\ UNCHANGED <<vNative, vAConf, vPorts, s_controller_payload,
                 s_controller_payload_size, s_adapter_detect_thread_running, loc,
                 calls, since, outs, vCount>>

\* lines 199-241: open the adapter; when that succeeds start the write thread,
\* reset the rumble (ResetRumble, lines 829-835), copy what the Java Input()
\* returns until the flag is cleared, and stop and join the write thread; in
\* any case clear the descriptor and the detected mark. The position
\* "ar_first" is the loop with first_read still true.
Android_Read ==
  /\ \/ /\ pc["read"] = "ar_open"
        /\ \E connected \in (IF bus # 0 THEN BOOLEAN ELSE {FALSE}) :
             IF connected
               THEN /\ android' = [android EXCEPT !.s_write_adapter_thread_running = TRUE]
                    /\ thr' = [thr EXCEPT !.output = "live"]
                    /\ pc' = [pc EXCEPT !["read"] = "ar_rumble", !["write"] = "aw_loop"]
               ELSE /\ Goto("read", "ar_exit")
                    /\ UNCHANGED <<android, thr>>
        /\ UNCHANGED <<s_controller_payload, s_controller_payload_size>>
     \/ /\ pc["read"] = "ar_rumble"
        /\ android' = [android EXCEPT
                         !.s_controller_write_payload = <<RUMBLE_OPCODE, 0, 0, 0, 0>>,
                         !.s_controller_write_payload_size =
                            CONTROLER_OUTPUT_RUMBLE_PAYLOAD_SIZE,
                         !.s_write_happened = TRUE]
        /\ Goto("read", "ar_first")
        /\ UNCHANGED <<thr, s_controller_payload, s_controller_payload_size>>
     \/ /\ pc["read"] \in {"ar_first", "ar_loop"}
        /\ IF ~android.s_read_adapter_thread_running
             THEN /\ Goto("read", "ar_stop")
                  /\ UNCHANGED <<android, s_controller_payload,
                                 s_controller_payload_size>>
             ELSE \E r \in JavaInput(android.controller_payload) :
                    /\ android' = [android EXCEPT !.controller_payload = r.data]
                    /\ s_controller_payload' = r.data
                    /\ s_controller_payload_size' = r.size
                    /\ Goto("read", IF pc["read"] = "ar_first" THEN "ar_fd"
                                    ELSE "ar_loop")
        /\ thr' = thr
     \/ /\ pc["read"] = "ar_fd"
        /\ android' = [android EXCEPT !.s_fd = 1]
        /\ Goto("read", "ar_loop")
        /\ UNCHANGED <<thr, s_controller_payload, s_controller_payload_size>>
     \/ /\ pc["read"] = "ar_stop"
        /\ IF android.s_write_adapter_thread_running
             THEN /\ android' = [android EXCEPT
                                   !.s_write_adapter_thread_running = FALSE,
                                   !.s_controller_write_payload_size = 0,
                                   !.s_write_happened = TRUE]
                  /\ Goto("read", "ar_join")
             ELSE /\ android' = android
                  /\ Goto("read", "ar_exit")
        /\ UNCHANGED <<thr, s_controller_payload, s_controller_payload_size>>
     \/ /\ pc["read"] = "ar_join"
        /\ thr.output = "exited"
        /\ thr' = [thr EXCEPT !.output = "none"]
        /\ Goto("read", "ar_exit")
        /\ UNCHANGED <<android, s_controller_payload, s_controller_payload_size>>
     \/ /\ pc["read"] = "ar_exit"
        /\ android' = [android EXCEPT !.s_fd = 0, !.s_detected = FALSE]
        /\ thr' = [thr EXCEPT !.input = "exited"]
        /\ Goto("read", "off")
        /\ UNCHANGED <<s_controller_payload, s_controller_payload_size>>
  /\ UNCHANGED <<vNative, vAConf, vPorts, s_adapter_detect_thread_running, loc,
                 calls, since, outs, vCount, terminated>>

\* lines 280-305: wait for the event; write a staged payload through the Java
\* Output(), which returns the bytes it wrote, 0 for data it refuses, or an
\* error; call Reset when it wrote another, nonzero, number of bytes
Android_Write ==
  /\ \/ /\ pc["write"] = "aw_loop"
        /\ IF android.s_write_adapter_thread_running
             THEN Goto("write", "aw_wait") /\ thr' = thr
             ELSE Goto("write", "off") /\ thr' = [thr EXCEPT !.output = "exited"]
        /\ UNCHANGED <<android, loc>>
     \/ /\ pc["write"] = "aw_wait"
        /\ android.s_write_happened
        /\ android' = [android EXCEPT !.s_write_happened = FALSE]
        /\ loc' = [loc EXCEPT !["write"].size = android.s_controller_write_payload_size]
        /\ Goto("write", IF android.s_controller_write_payload_size # 0
                           THEN "aw_send" ELSE "aw_loop")
        /\ thr' = thr
     \/ /\ pc["write"] = "aw_send"
        /\ \E size \in {loc["write"].size, 0, -1} :
             Goto("write", IF size # loc["write"].size /\ size # 0
                             THEN "ars_check" ELSE "aw_loop")
        /\ UNCHANGED <<android, loc, thr>>
  /\ UNCHANGED <<vNative, vAConf, vPorts, s_controller_payload,
                 s_controller_payload_size, s_adapter_detect_thread_running,
                 calls, since, outs, vCount, terminated>>

\* Reset returns to the thread that called it: in the cpu thread Input returns
\* the neutral state (lines 732, 800), the write loop goes on (lines 300,
\* 304), the host's Shutdown unsubscribes (lines 637, 644)
Android_Return(t) ==
  /\ Goto(t, CASE t = "cpu" -> "idle" [] t = "write" -> "aw_loop" [] OTHER -> "asd_unsub")
  /\ IF t = "cpu"
       THEN /\ calls' = Append(calls, Returned(loc["cpu"].chan, FALSE,
                                               loc["cpu"].copy, 0, NoPad))
            /\ loc' = [loc EXCEPT !["cpu"] = CpuLocals]
       ELSE UNCHANGED <<calls, loc>>

\* lines 667-689: return unless the adapter is detected; stop and join the
\* read thread when its flag is set; clear the tracked types; clear the
\* detected mark and the descriptor
Android_Reset(t) ==
  /\ \/ /\ pc[t] = "ars_check"
        /\ IF ~android.s_detected
             THEN Android_Return(t) /\ android' = android
             ELSE /\ android' = [android EXCEPT !.s_read_adapter_thread_running = FALSE]
                  /\ Goto(t, IF android.s_read_adapter_thread_running
                               THEN "ars_join" ELSE "ars_fill")
                  /\ UNCHANGED <<calls, loc>>
        /\ UNCHANGED <<thr, s_controller_type, since>>
     \/ /\ pc[t] = "ars_join"
        /\ thr.input = "exited"
        /\ thr' = [thr EXCEPT !.input = "none"]
        /\ Goto(t, "ars_fill")
        /\ UNCHANGED <<android, calls, loc, s_controller_type, since>>
     \/ /\ pc[t] = "ars_fill"
        /\ s_controller_type' = [c \in Chans |-> ControllerType_None]
        /\ Disturb
        /\ Goto(t, "ars_end")
        /\ UNCHANGED <<android, calls, loc, thr>>
     \/ /\ pc[t] = "ars_end"
        /\ android' = [android EXCEPT !.s_detected = FALSE, !.s_fd = 0]
        /\ Android_Return(t)
        /\ UNCHANGED <<thr, s_controller_type, since>>
  /\ UNCHANGED <<vNative, vAConf, s_controller_rumble, s_controller_payload,
                 s_controller_payload_size, s_adapter_detect_thread_running,
                 outs, vCount, terminated>>

\* lines 628-648 without the libusb parts: StopScanThread (lines 460-465),
\* Reset, and the end of the subscription
Android_Shutdown ==
  /\ \/ /\ pc["host"] = "idle"
        /\ host_left > 0
        /\ host_left' = host_left - 1
        /\ s_adapter_detect_thread_running' = FALSE
        /\ Goto("host", IF s_adapter_detect_thread_running THEN "asd_join"
                        ELSE "ars_check")
        /\ UNCHANGED <<thr, s_config_callback_id, config_store>>
     \/ /\ pc["host"] = "asd_join"
        /\ thr.detect = "exited"
        /\ thr' = [thr EXCEPT !.detect = "none"]
        /\ Goto("host", "ars_check")
        /\ UNCHANGED <<host_left, s_adapter_detect_thread_running,
                       s_config_callback_id, config_store>>
     \/ /\ pc["host"] = "asd_unsub"
        /\ s_config_callback_id' = FALSE
        /\ config_store' = [config_store EXCEPT
                              !.callbacks = IF s_config_callback_id THEN @ - 1 ELSE @]
        /\ Goto("host", "idle")
        /\ UNCHANGED <<host_left, thr, s_adapter_detect_thread_running>>
  /\ UNCHANGED <<vNative, vPorts, s_controller_payload, s_controller_payload_size,
                 s_last_init, s_config_si_device_type, s_config_rumble_enabled, bus,
                 plugs_left, loc, calls, since, outs, cpu_left, terminated, android>>

\* lines 697-698 and 704-705: return the neutral state unless the adapter is
\* in use, detected and its descriptor known
Android_Input_Begin ==
  /\ pc["cpu"] = "idle"
  /\ cpu_left > 0
  /\ cpu_left' = cpu_left - 1
  /\ since' = [prev |-> since.cur, cur |-> FALSE]
  /\ \E chan \in PolledChans :
       IF ~UseAdapter \/ ~android.s_detected \/ android.s_fd = 0
         THEN /\ UNCHANGED <<pc, loc>>
              /\ calls' = Append(calls, Returned(chan, FALSE, <<>>, 0, NoPad))
         ELSE /\ loc' = [loc EXCEPT !["cpu"].chan = chan]
              /\ Goto("cpu", "ip_copy")
              /\ calls' = calls
  /\ UNCHANGED <<vNative, vAConf, vPorts, s_controller_payload,
                 s_controller_payload_size, s_adapter_detect_thread_running, thr,
                 outs, host_left, terminated, android>>

\* lines 721-745: a copy of another size than 37 makes Input call Reset (line
\* 732); the header byte is not looked at
Android_Input_Check ==
  /\ pc["cpu"] = "ip_check"
  /\ LET c == loc["cpu"].chan
         p == loc["cpu"].copy
     IN IF loc["cpu"].size # CONTROLER_INPUT_PAYLOAD_EXPECTED_SIZE
          THEN /\ Goto("cpu", "ars_check")
               /\ loc' = loc
          ELSE /\ Goto("cpu", "ip_store")
               /\ loc' = [loc EXCEPT
                            !["cpu"].type = PayloadType(p, c),
                            !["cpu"].was = s_controller_type[c],
                            !["cpu"].get_origin =
                               (PayloadType(p, c) # ControllerType_None
                                /\ s_controller_type[c] = ControllerType_None)]
  /\ UNCHANGED <<vNative, vAConf, vPorts, s_controller_payload,
                 s_controller_payload_size, s_adapter_detect_thread_running, thr,
                 calls, since, outs, vCount, terminated, android>>

\* lines 863-895: store a new command for a configured port of a detected
\* adapter, stage the payload under s_write_mutex and set the event
Android_Output ==
  /\ pc["cpu"] = "idle"
  /\ cpu_left > 0
  /\ cpu_left' = cpu_left - 1
  /\ \E chan \in RumbleChans, rumble_command \in Commands :
       IF /\ UseAdapter /\ s_config_rumble_enabled[chan]
          /\ android.s_detected /\ android.s_fd # 0
          /\ rumble_command # s_controller_rumble[chan]
          /\ s_controller_type[chan] # ControllerType_Wireless
         THEN /\ s_controller_rumble' = [s_controller_rumble EXCEPT ![chan] = rumble_command]
              /\ android' = [android EXCEPT
                   !.s_controller_write_payload =
                      <<RUMBLE_OPCODE>> \o
                      [i \in 1 .. MAX_SI_CHANNELS |->
                         IF i - 1 = chan THEN rumble_command
                         ELSE s_controller_rumble[i - 1]],
                   !.s_controller_write_payload_size =
                      CONTROLER_OUTPUT_RUMBLE_PAYLOAD_SIZE,
                   !.s_write_happened = TRUE]
              /\ outs' = Append(outs, Called(chan, rumble_command, TRUE))
         ELSE /\ UNCHANGED <<s_controller_rumble, android>>
              /\ outs' = Append(outs, Called(chan, rumble_command, FALSE))
  /\ UNCHANGED <<vNative, vAConf, s_controller_type, s_controller_payload,
                 s_controller_payload_size, s_adapter_detect_thread_running, thr,
                 pc, loc, calls, since, host_left, terminated>>

\* polling on the Android build: the host initialises once, the adapter comes
\* and goes and sends reports, the cpu thread polls the ports
InitAndroidInput == InitWith(LifeReads, MaxInputCalls, InputHostCalls, MaxPlugs)

NextAndroidInput ==
  \/ Android_Init
  \/ Android_ScanThreadFunc \/ Android_Setup
  \/ Android_Read
  \/ Android_Write \/ Android_Reset("write")
  \/ Android_Input_Begin \/ Input_Copy \/ Android_Input_Check \/ Input_Store
  \/ Input_Pad \/ Android_Reset("cpu")
  \/ BusStep

SpecAndroidInput == InitAndroidInput /\ [][NextAndroidInput]_vars

\* teardown on the Android build: the host initialises and shuts down, the
\* adapter comes and goes and sends reports, the cpu thread drives the rumble
InitAndroidTeardown == InitWith(LifeReads, MaxCpuCalls, MaxHostCalls, MaxPlugs)

NextAndroidTeardown ==
  \/ Android_Init \/ Android_Shutdown \/ Android_Reset("host")
  \/ Android_ScanThreadFunc \/ Android_Setup
  \/ Android_Read
  \/ Android_Write \/ Android_Reset("write")
  \/ Android_Output
  \/ BusStep

SpecAndroidTeardown == InitAndroidTeardown /\ [][NextAndroidTeardown]_vars

(* ------------------------------ properties ----------------------------- *)
\* C1: at most one device session is open; the read and the write thread exist
\* only while a handle is open and its interface claimed, so the handle is
\* closed only after both have been joined; no thread object is started over
\* an unjoined one
C1_ThreadsInsideSession ==
  /\ open_handles <= 1
  /\ open_handles = (IF s_handle # 0 THEN 1 ELSE 0)
  /\ (thr.input # "none" \/ thr.output # "none"
      \/ pc["read"] # "off" \/ pc["write"] # "off") => s_handle # 0 /\ claimed
  /\ ~terminated

\* a session with both threads was torn down by Reset after a removal
C1_Witness ==
  /\ pc["hp"] = "hp_after"
  /\ loc["hp"].open /\ ~loc["hp"].skipped
  /\ s_handle = 0
  /\ thr.input = "none" /\ thr.output = "none"
  /\ Len(out_log) > 0

\* C3: when the callback's Reset for the removed open device has returned,
\* both I/O threads are joined, the session is released, every port's type is
\* None and the status is "not detected"
C3_RemovalResets ==
  (pc["hp"] = "hp_after" /\ loc["hp"].open) =>
     /\ s_handle = 0
     /\ thr.input = "none" /\ thr.output = "none"
     /\ \A c \in Chans : s_controller_type[c] = ControllerType_None
     /\ s_status = NO_ADAPTER_DETECTED

\* C5: when Shutdown has run to its end, the scan thread and both I/O threads
\* are joined, no handle is open, the status is "not detected", the
\* configuration subscription is removed and the context is released
C5_ShutdownReleases ==
  pc["host"] = "sd_done" =>
     /\ thr.detect = "none"
     /\ s_handle = 0
     /\ thr.input = "none" /\ thr.output = "none"
     /\ s_status = NO_ADAPTER_DETECTED
     /\ ~s_config_callback_id
     /\ s_libusb_context.id = 0

\* no operation that writes the status is under way
StatusQuiet == pc["host"] = "idle" /\ pc["hp"] = "idle" /\ s_init_mutex = ""

\* C7: between the operations that change the status, the status is the one
\* the last callback announced, and no callback ran without a change
C7_CallbackPerChange == StatusQuiet => (notified = s_status /\ ~redundant_cb)

\* C8: what a session has written to the output endpoint starts with the one
\* init payload, everything after it is a 5-byte rumble payload, and a
\* detected adapter has been sent its init payload
C8_InitFirst ==
  /\ out_log # <<>> =>
       /\ out_log[1] = <<INIT_OPCODE>>
       /\ \A i \in 2 .. Len(out_log) :
            /\ Len(out_log[i]) = CONTROLER_OUTPUT_RUMBLE_PAYLOAD_SIZE
            /\ out_log[i][1] = RUMBLE_OPCODE
  /\ (s_status = ADAPTER_DETECTED \/ thr.output # "none") => out_log # <<>>

\* a session has sent its init payload, the rumble reset of its setup, and a
\* rumble command from the write thread
C8_Witness ==
  /\ Len(out_log) >= 3
  /\ \E i \in 2 .. Len(out_log) : out_log[i][2] # 0

\* C4: once the adapter is gone from the bus while its session is detected,
\* the status eventually leaves "detected", also when the scan thread polls
\* because hotplug notifications are not available
C4_RemovalDetected ==
  (~s_libusb_hotplug_enabled /\ s_status = ADAPTER_DETECTED /\ s_handle # 0 /\ bus = 0)
     ~> (s_status # ADAPTER_DETECTED)

\* the positions of a thread that waits in a join: Reset after it has cleared
\* the run flag, up to its second join, and StopScanThread's join
Joining == {"rs_signal", "rs_join_in", "rs_join_out", "sd_join"}

\* C9: no thread stays in a join for ever: a Reset that has cleared the run
\* flag gets past both joins, and a Shutdown that waits for the scan thread
\* gets past its join
C9_JoinsComplete ==
  /\ []<>(pc["hp"] \notin Joining)
  /\ []<>(pc["host"] \notin Joining)

\* a Reset has joined both threads and a Shutdown has joined the scan thread
C9_Witness ==
  /\ pc["host"] = "rs_fill"
  /\ thr = [detect |-> "none", input |-> "none", output |-> "none"]
  /\ s_handle # 0

\* the pair is what one transfer left: the buffer it filled and its byte count
FromOneRead(copy, size) ==
  \E i \in 1 .. Len(read_log) : read_log[i].data = copy /\ read_log[i].size = size

\* C2: the payload and the size that Input has copied are the zeroed initial
\* pair or the buffer and the byte count of one and the same read
C2_CopyFromOneRead ==
  pc["cpu"] = "ip_check" =>
     \/ /\ loc["cpu"].copy = Zeros(CONTROLER_INPUT_PAYLOAD_EXPECTED_SIZE)
        /\ loc["cpu"].size = 0
     \/ FromOneRead(loc["cpu"].copy, loc["cpu"].size)

\* C6: when a Reset that found a session open and closed it has returned, no
\* port is connected
C6_ResetDisconnects ==
  (pc["hp"] = "hp_after" /\ loc["hp"].open /\ s_handle = 0) =>
     \A c \in Chans : ~DeviceConnected(c)

\* the analog values and the buttons of a pad state, without the origin flag
PadValues(p) == [p EXCEPT !.button = @ \ {"GET_ORIGIN"}]

\* the last two Input calls polled the same port, both decoded the same valid
\* payload whose record for the port has a type, and the tracked types were not
\* cleared from the start of the first call on
StablePair ==
  /\ Len(calls) >= 2
  /\ LET a == calls[Len(calls) - 1]
         b == calls[Len(calls)]
     IN /\ a.valid /\ b.valid
        /\ a.chan = b.chan
        /\ a.copy = b.copy
        /\ PayloadType(a.copy, a.chan) # ControllerType_None
  /\ pc["cpu"] = "idle"
  /\ ~since.prev /\ ~since.cur

\* C10: two consecutive Input calls for a port on a stable valid payload, with
\* no Reset, Setup or ResetDeviceType in between, return the same buttons and
\* analog values and leave the port connected; the origin flag is set on the
\* call that found the tracked type None and not on the second call
C10_InputIdempotent ==
  StablePair =>
     LET a == calls[Len(calls) - 1]
         b == calls[Len(calls)]
     IN /\ PadValues(a.pad) = PadValues(b.pad)
        /\ "ERR_STATUS" \notin b.pad.button
        /\ DeviceConnected(b.chan)
        /\ ("GET_ORIGIN" \in a.pad.button) = (a.was = ControllerType_None)
        /\ "GET_ORIGIN" \notin b.pad.button

\* the first of two such calls saw the port's type appear and pressed buttons
C10_Witness ==
  /\ StablePair
  /\ "GET_ORIGIN" \in calls[Len(calls) - 1].pad.button
  /\ "A" \in calls[Len(calls)].pad.button

\* C12: an Output call for a port whose rumble is not enabled, or made while no
\* port uses the adapter, leaves the per-port rumble bytes and the write
\* thread's event as they were and returns at once
C12_OutputUnconfigured ==
  [][(Len(outs') > Len(outs) /\ ~outs'[Len(outs')].configured) =>
        /\ s_controller_rumble' = s_controller_rumble
        /\ s_rumble_data_available' = s_rumble_data_available
        /\ pc'["cpu"] = "idle"]_vars

\* with a handle open, a new command was refused for a port without rumble and
\* for port 0 while no port used the adapter
C12_Witness ==
  /\ \E i \in 1 .. Len(outs) :
       outs[i].chan = 1 /\ ~outs[i].configured /\ outs[i].open /\ ~outs[i].same
  /\ \E i \in 1 .. Len(outs) :
       outs[i].chan = 0 /\ ~outs[i].configured /\ outs[i].open /\ ~outs[i].same

\* the rumble payloads written to the open device that carry byte b for port c
Carrying(c, b) ==
  {i \in 1 .. Len(out_log) :
     /\ Len(out_log[i]) = CONTROLER_OUTPUT_RUMBLE_PAYLOAD_SIZE
     /\ out_log[i][c + 2] = b}

\* the session is open and detected, its setup is over, the cpu thread is
\* between calls and the write thread waits with nothing pending
RumbleQuiet ==
  /\ s_handle # 0 /\ s_status = ADAPTER_DETECTED /\ s_init_mutex = ""
  /\ pc["cpu"] = "idle" /\ pc["write"] = "wr_wait" /\ ~s_rumble_data_available

\* the cpu thread has called Output(0, 5) twice, with the session open and
\* port 0 configured for rumble, and nothing else
TwiceFive ==
  /\ Len(outs) = 2
  /\ \A i \in 1 .. 2 :
       outs[i].chan = 0 /\ outs[i].cmd = 5 /\ outs[i].configured /\ outs[i].open

\* C13: an Output call whose command is the byte already stored for the port
\* stores nothing and does not signal the write thread; after Output(0, 5),
\* Output(0, 5) on an open session exactly one rumble payload carrying 5 for
\* port 0 has been written
C13_DuplicateSuppressed ==
  /\ \A i \in 1 .. Len(outs) : outs[i].same => ~outs[i].staged
  /\ pc["cpu"] = "op_signal" => outs[Len(outs)].staged
  /\ (TwiceFive /\ RumbleQuiet) => Cardinality(Carrying(0, 5)) = 1

\* the last Output call that stored a command for port c, 0 when there is none
LastStaged(c) ==
  LET hits == {i \in 1 .. Len(outs) : outs[i].chan = c /\ outs[i].staged}
  IN IF hits = {} THEN 0 ELSE CHOOSE i \in hits : \A j \in hits : j <= i

\* a rumble payload written after the last command for port c was stored
\* carries that command
LastCommandSent(c) ==
  LastStaged(c) # 0 =>
     \E i \in (outs[LastStaged(c)].sent + 1) .. Len(out_log) :
        i \in Carrying(c, outs[LastStaged(c)].cmd)

\* C14: when the session stays open from some point on, the last command that
\* Output stored for a port is eventually written in a rumble payload
C14_LastCommandSent ==
  <>[](s_handle # 0 /\ HandleAlive /\ s_status = ADAPTER_DETECTED)
     => <>[](\A c \in RumbleChans : LastCommandSent(c))

\* the step begins an Init call
InitCalled ==
  pc["host"] = "idle" /\ host_left' # host_left /\ pc'["host"] \in {"idle", "in_ctx"}

\* the driver's state, without the positions of its threads
DriverState ==
  <<s_status, vHandle, vPorts, vBuf, vIO, s_init_mutex, vScan, vCtx, vCfg, thr,
    config_store>>

\* C15: an Init call that finds a session open changes no state; an Init that
\* gets to its configuration step holds the one subscription, takes the
\* snapshot of the stored configuration, and starts the scan thread exactly
\* when a port uses the adapter, no scan thread is running and the context is
\* valid; no scan thread is started over a running one
C15_InitEffects ==
  [][/\ (InitCalled /\ s_handle # 0) =>
          (pc'["host"] = "idle" /\ UNCHANGED DriverState)
     /\ (pc["host"] = "in_cfg" /\ pc'["host"] # "in_cfg") =>
          /\ s_config_callback_id' /\ config_store'.callbacks = 1
          /\ s_config_si_device_type' = config_store.use
          /\ s_config_rumble_enabled' = config_store.rumble
          /\ (thr.detect = "none" /\ thr'.detect = "live") <=>
                /\ \E c \in Chans : config_store.use[c]
                /\ ~s_adapter_detect_thread_running
                /\ s_libusb_context.valid
     /\ ~terminated'
     /\ config_store'.callbacks <= 1]_vars

\* two Init calls have been made, the scan thread runs, a session is open and
\* the subscription is held
C15_Witness ==
  /\ pc["host"] = "idle" /\ host_left = MaxInitCalls - 2
  /\ thr.detect = "live" /\ s_handle # 0 /\ s_status = ADAPTER_DETECTED
  /\ s_config_callback_id /\ config_store.callbacks = 1

\* C15 as stated: every Init that finds no session open returns with the
\* subscription held and the snapshot taken, and with a scan thread running
\* exactly when one ran before or a port uses the adapter
C15_InitAlwaysConfigures ==
  [][(pc["host"] \in {"in_ctx", "in_cfg"} /\ pc'["host"] = "idle") =>
        /\ s_config_callback_id'
        /\ s_config_si_device_type' = config_store.use
        /\ s_config_rumble_enabled' = config_store.rumble
        /\ s_adapter_detect_thread_running' <=>
              (s_adapter_detect_thread_running \/ \E c \in Chans : config_store.use[c])]_vars

\* C16: while the core runs, an Init call made less than one emulated second
\* after the Init that last stamped s_last_init returns without changing the
\* context, the status, the subscription, the snapshot, the scan thread or
\* the stamp
C16_SuppressedInitNoEffect ==
  [][(/\ pc["host"] = "in_ctx" /\ pc'["host"] = "idle"
      /\ core_running /\ s_last_init > 0
      /\ ticks >= s_last_init /\ ticks - s_last_init < TicksPerSecond) =>
        UNCHANGED <<s_libusb_context, s_status, s_config_callback_id,
                    s_config_si_device_type, s_config_rumble_enabled, thr,
                    s_adapter_detect_thread_running, s_last_init>>]_vars

\* the positions at which a thread is about to make a blocking USB transfer
\* (the control transfer of the probe, the init payload, a rumble payload)
\* or waits in a join
Blocking == {"cd_claim", "ag_start", "rr_send", "rs_join_in", "rs_join_out", "sd_join"}

\* C17: the cpu thread never makes a USB transfer inside an API call, and no
\* thread holds s_init_mutex while it makes a blocking transfer or waits in a
\* join
C17_NoBlockingInCalls ==
  /\ pc["cpu"] \notin Blocking
  /\ s_init_mutex # "" => pc[s_init_mutex] \notin Blocking

\* C18: a pass of the probe over devices whose vendor/product pair is not
\* 0x057e/0x0337 leaves the status, the handle and the endpoints as they
\* were and opens nothing
C18_OtherDevicesIgnored ==
  [][(/\ pc["scan"] = "st_next" /\ pc'["scan"] # "st_next"
      /\ loc["scan"].devs # <<>>
      /\ \A i \in 1 .. Len(loc["scan"].devs) :
            \/ loc["scan"].devs[i].vid # GC_VENDOR
            \/ loc["scan"].devs[i].pid # GC_PRODUCT) =>
        /\ pc'["scan"] = "st_end"
        /\ UNCHANGED <<s_status, vHandle, out_log>>]_vars

\* a scan pass over a bus without the adapter has probed the other device and
\* ended with nothing open
C18_Witness ==
  /\ pc["scan"] = "st_end" /\ loc["scan"].devs = <<>>
  /\ bus = 0 /\ plugs_left = MaxPlugs
  /\ s_handle = 0 /\ s_status = NO_ADAPTER_DETECTED

\* the bit of the 16-bit word b1 + 256 * b2 that stands for each button
ButtonBit ==
  [A |-> 0, B |-> 1, X |-> 2, Y |-> 3, LEFT |-> 4, RIGHT |-> 5, DOWN |-> 6, UP |-> 7,
   START |-> 8, Z |-> 9, R |-> 10, L |-> 11]

\* C19: an Input call that decodes a valid payload for a port whose record has
\* a type returns, apart from the origin flag, exactly the buttons whose bits
\* are set in the record's two button bytes; the origin flag is set exactly
\* when the tracked type was None
C19_ButtonsDecoded ==
  \A i \in 1 .. Len(calls) :
    (calls[i].valid /\ PayloadType(calls[i].copy, calls[i].chan) # ControllerType_None) =>
       LET word == PortByte(calls[i].copy, calls[i].chan, 1)
                   + 256 * PortByte(calls[i].copy, calls[i].chan, 2)
       IN /\ calls[i].pad.button \ {"GET_ORIGIN"} =
               {n \in DOMAIN ButtonBit : (word \div (2 ^ ButtonBit[n])) % 2 = 1}
          /\ ("GET_ORIGIN" \in calls[i].pad.button) = (calls[i].was = ControllerType_None)

\* a call has decoded a record with some buttons pressed and others not, with
\* bits set in the second byte that stand for no button
C19_Witness ==
  \E i \in 1 .. Len(calls) :
    /\ calls[i].valid
    /\ PortByte(calls[i].copy, calls[i].chan, 2) = 248
    /\ {"X", "UP", "L"} \subseteq calls[i].pad.button
    /\ "Y" \notin calls[i].pad.button

\* C20: between two iterations of the read loop the active buffer and its
\* byte count are those of the last transfer that succeeded; a transfer that
\* fails or times out leaves both as they were
C20_ActiveIsLastGoodRead ==
  (read_log # <<>> /\ pc["read"] = "rd_loop") =>
     /\ s_controller_payload = read_log[Len(read_log)].data
     /\ s_controller_payload_size = read_log[Len(read_log)].size

\* C11: an Input call that finds the payload malformed changes no port's
\* tracked type before it returns, and returns the neutral state
C11_MalformedInputNeutral ==
  [][/\ (pc["cpu"] \in {"ip_check", "ars_check", "ars_join", "ars_fill", "ars_end"}
         /\ pc'["cpu"] # pc["cpu"]
         /\ loc["cpu"].size # CONTROLER_INPUT_PAYLOAD_EXPECTED_SIZE)
           => s_controller_type' = s_controller_type
     /\ (Len(calls') > Len(calls) /\ ~calls'[Len(calls')].valid)
           => calls'[Len(calls')].pad = NoPad]_vars

\* the step ends a failed attempt of CheckDeviceAccess on an adapter: the
\* descriptor, the open, the detach or the claim failed
FailedAttempt ==
  /\ pc'["scan"] = "st_next"
  /\ \/ pc["scan"] = "cd_claim"
     \/ pc["scan"] = "st_next" /\ Len(loc'["scan"].devs) < Len(loc["scan"].devs)

\* C21: a failed attempt on an adapter leaves no handle open and no I/O thread
\* running; a failed descriptor read passes the device over and leaves the
\* status as it was; a failed open, detach or claim leaves the failure's
\* negative error code in the status, and only a refused open leaves
\* LIBUSB_ERROR_ACCESS
C21_FailedAttemptStatus ==
  [][FailedAttempt =>
       /\ s_handle' = 0 /\ open_handles' = 0 /\ ~claimed'
       /\ ~s_adapter_thread_running' /\ pc'["read"] = "off" /\ pc'["write"] = "off"
       /\ IF loc'["scan"].status_guard
            THEN /\ s_status' = loc'["scan"].ret /\ s_status' < 0
                 /\ s_status' = LIBUSB_ERROR_ACCESS => pc["scan"] = "st_next"
            ELSE /\ pc["scan"] = "st_next" /\ loc'["scan"].ret # 0
                 /\ s_status' = s_status]_vars

\* the claim of an opened adapter has failed: the handle is closed and the
\* status holds LIBUSB_ERROR_BUSY
C21_Witness ==
  /\ pc["scan"] = "st_next" /\ loc["scan"].status_guard
  /\ loc["scan"].ret = LIBUSB_ERROR_BUSY /\ s_status = LIBUSB_ERROR_BUSY
  /\ s_handle = 0 /\ open_handles = 0

\* C21 as stated: every failed attempt, a failed descriptor read included,
\* leaves no handle open and the failure's error code in the status
C21_EveryFailureInStatus ==
  [][FailedAttempt =>
       /\ s_handle' = 0 /\ open_handles' = 0
       /\ s_status' = loc'["scan"].ret /\ s_status' < 0]_vars

\* C23: the status is Detected only while a handle is open, and so is the
\* I/O run flag set; with no handle open the status is NotDetected or an
\* error code and neither I/O thread runs
C23_DetectedHasHandle ==
  /\ s_status = ADAPTER_DETECTED => s_handle # 0
  /\ s_adapter_thread_running => s_handle # 0
  /\ s_handle = 0 =>
       /\ s_status <= NO_ADAPTER_DETECTED
       /\ pc["read"] = "off" /\ pc["write"] = "off"

\* a session that was detected has been reset: its handle is closed, the
\* status is NotDetected and the flag is clear
C23_Witness ==
  /\ s_handle = 0 /\ open_handles = 0 /\ out_log # <<>>
  /\ notified = NO_ADAPTER_DETECTED /\ redundant_cb = FALSE
  /\ s_status = NO_ADAPTER_DETECTED /\ ~s_adapter_thread_running
  /\ pc["hp"] = "idle" /\ pc["host"] = "idle" /\ bus = 0 /\ plugs_left = 0

\* C24: while the scan thread runs, the transport context is neither replaced
\* nor destroyed
C24_ContextKeptWhileScanning ==
  [][(pc["scan"] # "off" /\ s_libusb_context.id # 0) =>
        s_libusb_context' = s_libusb_context]_vars

\* C22: a rumble write that fails or writes another number of bytes sends the
\* write thread back to its wait, and no step of the write thread stops the
\* read thread, clears the tracked types or drops the session
C22_WriteFailureOnlyLogged ==
  [][/\ (pc["write"] \in {"wr_send", "aw_send"} /\ pc'["write"] # pc["write"]) =>
          pc'["write"] \in {"wr_wait", "aw_loop"}
     /\ pc'["write"] # pc["write"] =>
          /\ android'.s_read_adapter_thread_running = android.s_read_adapter_thread_running
          /\ android'.s_detected = android.s_detected
          /\ android'.s_fd = android.s_fd
          /\ UNCHANGED <<s_controller_type, s_adapter_thread_running, s_handle, s_status>>]_vars

\* C25: the write thread never waits in Reset for the read thread while the
\* read thread waits to join the write thread
C25_NoJoinCycle ==
  ~(pc["write"] = "ars_join" /\ pc["read"] = "ar_join")

====
